---- MODULE Spec2Model ----
(***************************************************************************)
(* Decision pipeline and hash-linked audit chain of the DNS firewall.      *)
(*                                                                         *)
(* Probabilities and confidences are integers in percent (0.8 is 80).      *)
(* An optional value is a sequence: <<>> is None, <<x>> is the value x.    *)
(* A SHA-256 digest is modelled by its preimage (a tagged tuple), so two   *)
(* digests are equal exactly when the hashed strings are equal.            *)
(***************************************************************************)
EXTENDS Integers, Sequences, FiniteSets, TLC

VARIABLES
    is_loaded,     \* MLModel.is_loaded of the global classifier
    model,         \* MLModel.model: <<>> (None) or <<artifact>>
    engineReady,   \* a FirewallEngine has been constructed
    whitelist,     \* RuleEngine's in-memory whitelist
    blacklist,     \* RuleEngine's in-memory blacklist
    blocks,        \* committed rows of table blockchain_logs
    dnsLogs,       \* committed rows of table dns_logs, in insertion order
    now,           \* the last instant read from the clock by datetime.utcnow()
    pc,            \* per worker thread: position in check_domain/_log_decision;
                   \* "raise" is check_domain left by an exception
    query,         \* per worker thread: locals of check_domain
    session,       \* per worker thread: rows added to its session, not committed
    local,         \* per worker thread: locals of BlockchainLogger in this call
    result,        \* per worker thread: what the last check_domain returned
    errorLog,      \* per worker thread: logger.error messages of the current call
    served,        \* number of check_domain calls started
    tampered,      \* the out-of-band edit made to a stored block, if any
    predIn,        \* arguments of the last direct predict call
    predOut,       \* what the last direct predict call returned
    response,      \* per worker thread: what resolve did after check_domain:
                   \* the upstream exchange and the reply it returns
    server,        \* DNSFirewallServer.server: <<>> (None) or <<i>>, the i-th
                   \* DNSServer object created
    thread,        \* DNSFirewallServer.thread: <<>> (None) or <<i>>, the thread
                   \* running the start method of the i-th DNSServer
    servers,       \* the DNSServer objects created so far, in order
    lastCall,      \* the last start() or stop() call and whether it raised
    verifyOut,     \* what the last verify_chain call returned
    wlTable,       \* committed rows of table whitelist (their domain column)
    blTable,       \* committed rows of table blacklist (their domain column)
    listEdits,     \* number of rows added to or deleted from the two tables
    reload,        \* the thread running reload_lists: its position and the
                   \* sets it has read
    requests,      \* the names asked for in the last pair of DNS requests
    decided,       \* for each request of the pair: the domain check_domain
                   \* was called with and what it decided
    featIn,        \* argument of the last feature extractor call
    featOut,       \* what the last feature extractor call returned
    upstreamCall   \* the _query_upstream call under way, what the last one
                   \* returned, and the sockets _query_upstream has opened

engineVars == <<is_loaded, model, engineReady, whitelist, blacklist>>
storeVars  == <<blocks, dnsLogs>>
threadVars == <<pc, query, session, local, result, errorLog, served>>
predVars   == <<predIn, predOut>>
serverVars == <<server, thread, servers, lastCall, upstreamCall>>
tableVars  == <<wlTable, blTable, listEdits, reload>>
callVars   == <<requests, decided, featIn, featOut>>
vars == <<is_loaded, model, engineReady, whitelist, blacklist, blocks, dnsLogs,
          now, pc, query, session, local, result, errorLog, served, tampered,
          predIn, predOut, response, server, thread, servers, lastCall,
          verifyOut, wlTable, blTable, listEdits, reload, requests, decided, featIn,
          featOut, upstreamCall>>

(***************************************************************************)
(* Bounds of the model                                                     *)
(***************************************************************************)
MaxQueries == 2
MaxTime == 1

\* the worker threads of the DNS server, one per query in flight
Threads == {"w1", "w2"}
Domains == {"good.com", "bad.com", "new.io"}
PersistedWhitelist == {"good.com"}
PersistedBlacklist == {"bad.com"}
\* what the artifact reports for a query in the pipeline (p_safe = 100 - p_mal)
EngineProbs == {10, 50, 90}
\* what the artifact may report in a direct predict call
Probs == {0, 10, 20, 30, 40, 50, 60, 70, 80, 90, 100}
Faults == {"none", "feature_extraction", "predict_proba"}

(***************************************************************************)
(* Settings                                                                *)
(***************************************************************************)
ML_CONFIDENCE_THRESHOLD == 80
BLOCKCHAIN_ENABLED == TRUE

(***************************************************************************)
(* Classifier adapter: MLModel.predict                                     *)
(***************************************************************************)
PredictReturn(decision, confidence, reason, loaded, mdl) ==
    [raised |-> FALSE, decision |-> decision, confidence |-> confidence,
     reason |-> reason, is_loaded |-> loaded, model |-> mdl]

Max(a, b) == IF a >= b THEN a ELSE b

\* Threshold with the ALLOW branch compared against ML_REVIEW_THRESHOLD (0.5)
ThresholdReviewConstant(p_mal, p_safe) ==
    IF p_mal >= ML_CONFIDENCE_THRESHOLD
    THEN [decision |-> "BLOCK", confidence |-> p_mal, reason |-> "malicious pattern"]
    ELSE IF p_safe >= 50
    THEN [decision |-> "ALLOW", confidence |-> p_safe, reason |-> "classified as safe"]
    ELSE [decision |-> "REVIEW", confidence |-> Max(p_mal, p_safe),
          reason |-> "uncertain"]

\* ThresholdAt that tests the ALLOW condition first
ThresholdAtAllowFirst(threshold, p_mal, p_safe) ==
    IF p_safe >= threshold
    THEN [decision |-> "ALLOW", confidence |-> p_safe, reason |-> "classified as safe"]
    ELSE IF p_mal >= threshold
    THEN [decision |-> "BLOCK", confidence |-> p_mal, reason |-> "malicious pattern"]
    ELSE [decision |-> "REVIEW", confidence |-> Max(p_mal, p_safe),
          reason |-> "uncertain"]

\* the threshold policy of lines 60-75 under a value of the setting
\* ML_CONFIDENCE_THRESHOLD
ThresholdAt(threshold, p_mal, p_safe) ==
    IF p_mal >= threshold
    THEN [decision |-> "BLOCK", confidence |-> p_mal, reason |-> "malicious pattern"]
    ELSE IF p_safe >= threshold
    THEN [decision |-> "ALLOW", confidence |-> p_safe, reason |-> "classified as safe"]
    ELSE [decision |-> "REVIEW", confidence |-> Max(p_mal, p_safe),
          reason |-> "uncertain"]

\* the threshold policy of lines 60-75
Threshold(p_mal, p_safe) ==
    IF p_mal >= ML_CONFIDENCE_THRESHOLD
    THEN [decision |-> "BLOCK", confidence |-> p_mal, reason |-> "malicious pattern"]
    ELSE IF p_safe >= ML_CONFIDENCE_THRESHOLD
    THEN [decision |-> "ALLOW", confidence |-> p_safe, reason |-> "classified as safe"]
    ELSE [decision |-> "REVIEW", confidence |-> Max(p_mal, p_safe),
          reason |-> "uncertain"]

\* PredictExcept that logs and re-raises
PredictExceptReraises(fault, loaded, mdl) ==
    [raised |-> TRUE, decision |-> "UNCERTAIN", confidence |-> 50,
     reason |-> "Prediction error", is_loaded |-> loaded, model |-> mdl]

\* what the except clause of lines 77-79 does with an exception of the try body
PredictExcept(fault, loaded, mdl) ==
    PredictReturn("UNCERTAIN", 50, "Prediction error", loaded, mdl)

\* predict(domain) on a classifier in state (loaded, mdl); fault says which call
\* of the try body fails, p_mal/p_safe what predict_proba reports
predict(loaded, mdl, fault, p_mal, p_safe) ==
    IF ~loaded \/ mdl = <<>>
    THEN PredictReturn("UNCERTAIN", 50, "ML model not available", loaded, mdl)
    ELSE IF fault # "none"
    THEN PredictExcept(fault, loaded, mdl)
    ELSE LET r == Threshold(p_mal, p_safe)
         IN  PredictReturn(r.decision, r.confidence, r.reason, loaded, mdl)

(***************************************************************************)
(* Rule engine (app/core/rule_engine.py)                                   *)
(***************************************************************************)
RULE_MAX_DOMAIN_LENGTH == 50
RULE_HIGH_ENTROPY_THRESHOLD == 4
RULE_SUSPICIOUS_TLDS == {".tk", ".ml", ".ga", ".cf", ".gq", ".xyz"}

\* str.lower() of one character and of a text
UpperCase == "ABCDEFGHIJKLMNOPQRSTUVWXYZ"
LowerCase == "abcdefghijklmnopqrstuvwxyz"

lower_char(c) ==
    IF \E i \in 1..26 : SubSeq(UpperCase, i, i) = c
    THEN LET i == CHOOSE i \in 1..26 : SubSeq(UpperCase, i, i) = c
         IN  SubSeq(LowerCase, i, i)
    ELSE c

RECURSIVE lower(_)
lower(text) ==
    IF Len(text) = 0 THEN text
    ELSE lower_char(SubSeq(text, 1, 1)) \o lower(SubSeq(text, 2, Len(text)))

\* str.endswith
endswith(text, suffix) ==
    /\ Len(suffix) <= Len(text)
    /\ SubSeq(text, Len(text) - Len(suffix) + 1, Len(text)) = suffix

\* text.split('.')[0]
first_label(text) ==
    IF \E i \in 1..Len(text) : SubSeq(text, i, i) = "."
    THEN LET i == CHOOSE i \in 1..Len(text) :
                    /\ SubSeq(text, i, i) = "."
                    /\ \A j \in 1..(i - 1) : SubSeq(text, j, j) # "."
         IN  SubSeq(text, 1, i - 1)
    ELSE text

\* len(Counter(text)): the number of different characters of text
distinct_chars(text) == Cardinality({SubSeq(text, i, i) : i \in 1..Len(text)})

\* 2 ** e
RECURSIVE pow2(_)
pow2(e) == IF e = 0 THEN 1 ELSE 2 * pow2(e - 1)

TooLong(domain) == Len(domain) > RULE_MAX_DOMAIN_LENGTH

\* the entropy of the name segment exceeds the threshold.  A text of n
\* characters, all different, has entropy log2(n); a text of at most 2**4
\* different characters has entropy at most 4.  Every name of the model is of
\* one of these two kinds, and for them the comparison is this one.
HighEntropy(domain) ==
    LET name == first_label(domain) IN
    /\ distinct_chars(name) = Len(name)
    /\ Len(name) > pow2(RULE_HIGH_ENTROPY_THRESHOLD)

SuspiciousTld(domain) == \E tld \in RULE_SUSPICIOUS_TLDS : endswith(domain, tld)

RuleEngine_check_domain(domain, wl, bl) ==
    IF domain \in bl THEN
        [decision |-> "BLOCK", confidence |-> 100, reason |-> "blacklist"]
    ELSE IF domain \in wl THEN
        [decision |-> "ALLOW", confidence |-> 100, reason |-> "whitelist"]
    ELSE IF TooLong(domain) THEN
        [decision |-> "BLOCK", confidence |-> 90, reason |-> "length"]
    ELSE IF HighEntropy(domain) THEN
        [decision |-> "BLOCK", confidence |-> 90, reason |-> "entropy"]
    ELSE IF SuspiciousTld(domain) THEN
        [decision |-> "UNCERTAIN", confidence |-> 50, reason |-> "suspicious tld"]
    ELSE
        [decision |-> "UNCERTAIN", confidence |-> 50, reason |-> "no rule"]

(***************************************************************************)
(* Decision engine: the deciding part of FirewallEngine.check_domain       *)
(***************************************************************************)
\* check_domain_decide that trusts the rule engine for ALLOW only
check_domain_decide_allow_only(domain, wl, bl, loaded, mdl, fault, p_mal, p_safe) ==
    LET rule == RuleEngine_check_domain(domain, wl, bl) IN
    IF rule.decision \in {"ALLOW"}
    THEN [raised |-> FALSE, domain |-> domain,
          decision |-> rule.decision, confidence |-> rule.confidence,
          reason |-> <<"Rule Engine", rule.reason>>, method |-> "rule_engine",
          rule_decision |-> rule.decision, predict_calls |-> 0]
    ELSE LET ml == predict(loaded, mdl, fault, p_mal, p_safe) IN
         [raised |-> ml.raised, domain |-> domain,
          decision |-> ml.decision, confidence |-> ml.confidence,
          reason |-> <<"ML Model", ml.reason>>, method |-> "ml_model",
          rule_decision |-> rule.decision, predict_calls |-> 1]

\* check_domain_decide that trusts the rule engine for BLOCK only
check_domain_decide_block_only(domain, wl, bl, loaded, mdl, fault, p_mal, p_safe) ==
    LET rule == RuleEngine_check_domain(domain, wl, bl) IN
    IF rule.decision \in {"BLOCK"}
    THEN [raised |-> FALSE, domain |-> domain,
          decision |-> rule.decision, confidence |-> rule.confidence,
          reason |-> <<"Rule Engine", rule.reason>>, method |-> "rule_engine",
          rule_decision |-> rule.decision, predict_calls |-> 0]
    ELSE LET ml == predict(loaded, mdl, fault, p_mal, p_safe) IN
         [raised |-> ml.raised, domain |-> domain,
          decision |-> ml.decision, confidence |-> ml.confidence,
          reason |-> <<"ML Model", ml.reason>>, method |-> "ml_model",
          rule_decision |-> rule.decision, predict_calls |-> 1]

check_domain_decide(domain, wl, bl, loaded, mdl, fault, p_mal, p_safe) ==
    LET rule == RuleEngine_check_domain(domain, wl, bl) IN
    IF rule.decision \in {"ALLOW", "BLOCK"}
    THEN [raised |-> FALSE, domain |-> domain,
          decision |-> rule.decision, confidence |-> rule.confidence,
          reason |-> <<"Rule Engine", rule.reason>>, method |-> "rule_engine",
          rule_decision |-> rule.decision, predict_calls |-> 0]
    ELSE LET ml == predict(loaded, mdl, fault, p_mal, p_safe) IN
         [raised |-> ml.raised, domain |-> domain,
          decision |-> ml.decision, confidence |-> ml.confidence,
          reason |-> <<"ML Model", ml.reason>>, method |-> "ml_model",
          rule_decision |-> rule.decision, predict_calls |-> 1]

(***************************************************************************)
(* Audit chain: BlockchainLogger and table blockchain_logs                 *)
(***************************************************************************)
\* '0' * 64
ZeroHash == <<"0000000000000000000000000000000000000000000000000000000000000000">>

\* datetime.isoformat(): the text of an instant
isoformat(ts) == [iso |-> ts]

\* json.dumps / json.loads of a payload dict; a text that is no JSON document
\* has valid_json = FALSE and json.loads raises on it
json_dumps(d) == [valid_json |-> TRUE, text |-> d]
json_loads(s) == s.text

\* sha256 of json.dumps({index, str(timestamp), data, previous_hash}, sort_keys=True);
\* block_data.timestamp is already a string, which str() returns as it is
_calculate_hash(block_data) ==
    <<"sha256", block_data.index, block_data.timestamp, block_data.data,
      block_data.previous_hash>>

\* UniqueOk with block_index not declared unique
UniqueOkHashOnly(bs, b) ==
    \A c \in bs : c.current_hash # b.current_hash

\* the unique constraints of blockchain_logs: block_index and current_hash
UniqueOk(bs, b) ==
    \A c \in bs : c.block_index # b.block_index /\ c.current_hash # b.current_hash

\* the genesis row built by _ensure_genesis_block: t1 is the utcnow() of line 29,
\* t2 the utcnow() of line 42
genesis_block(t1, t2) ==
    LET genesis_data == [domain |-> "GENESIS_BLOCK", decision |-> "INIT",
                         confidence |-> 100, timestamp |-> isoformat(t1),
                         message |-> "Genesis block for Smart DNS Firewall"]
        genesis_hash == _calculate_hash([index |-> 0,
                                         timestamp |-> genesis_data.timestamp,
                                         data |-> genesis_data,
                                         previous_hash |-> ZeroHash])
    IN  [block_index |-> 0, timestamp |-> t2, domain |-> "GENESIS_BLOCK",
         decision |-> "INIT", confidence |-> 100, previous_hash |-> ZeroHash,
         current_hash |-> genesis_hash, data |-> json_dumps(genesis_data)]

\* query(BlockchainLog).filter(block_index == 0).first()
GenesisOf(bs) ==
    IF \E b \in bs : b.block_index = 0
    THEN <<CHOOSE b \in bs : b.block_index = 0>>
    ELSE <<>>

\* query(BlockchainLog).order_by(block_index.desc()).first()
LastBlock(bs) ==
    IF bs = {} THEN <<>>
    ELSE <<CHOOSE b \in bs : \A c \in bs : c.block_index <= b.block_index>>

\* add_log_block that links to the hash the last block links to
add_log_block_stale_link(last_block, timestamp, domain, decision, confidence, reason) ==
    LET new_index == last_block.block_index + 1
        log_data == [domain |-> domain, decision |-> decision,
                     confidence |-> confidence, reason |-> reason,
                     timestamp |-> [iso |-> timestamp]]
        block_data == [index |-> new_index, timestamp |-> [iso |-> timestamp],
                       data |-> log_data,
                       previous_hash |-> last_block.previous_hash]
    IN  [block_index |-> new_index, timestamp |-> timestamp, domain |-> domain,
         decision |-> decision, confidence |-> confidence,
         previous_hash |-> last_block.previous_hash,
         current_hash |-> <<"sha256", block_data.index, block_data.timestamp,
                            block_data.data, block_data.previous_hash>>,
         data |-> [valid_json |-> TRUE, text |-> log_data]]

\* add_log_block with new_index = last_block.block_index + 2
add_log_block_skips_index(last_block, timestamp, domain, decision, confidence, reason) ==
    LET new_index == last_block.block_index + 2
        log_data == [domain |-> domain, decision |-> decision,
                     confidence |-> confidence, reason |-> reason,
                     timestamp |-> isoformat(timestamp)]
        block_data == [index |-> new_index, timestamp |-> isoformat(timestamp),
                       data |-> log_data,
                       previous_hash |-> last_block.current_hash]
    IN  [block_index |-> new_index, timestamp |-> timestamp, domain |-> domain,
         decision |-> decision, confidence |-> confidence,
         previous_hash |-> last_block.current_hash,
         current_hash |-> <<"sha256", block_data.index, block_data.timestamp,
                            block_data.data, block_data.previous_hash>>,
         data |-> json_dumps(log_data)]

\* the row add_log builds on last_block at instant timestamp (lines 108-143)
add_log_block(last_block, timestamp, domain, decision, confidence, reason) ==
    LET new_index == last_block.block_index + 1
        log_data == [domain |-> domain, decision |-> decision,
                     confidence |-> confidence, reason |-> reason,
                     timestamp |-> isoformat(timestamp)]
        block_data == [index |-> new_index, timestamp |-> isoformat(timestamp),
                       data |-> log_data,
                       previous_hash |-> last_block.current_hash]
    IN  [block_index |-> new_index, timestamp |-> timestamp, domain |-> domain,
         decision |-> decision, confidence |-> confidence,
         previous_hash |-> last_block.current_hash,
         current_hash |-> _calculate_hash(block_data),
         data |-> json_dumps(log_data)]

\* query(BlockchainLog).order_by(block_index).all()
RECURSIVE OrderByIndex(_)
OrderByIndex(bs) ==
    IF bs = {} THEN <<>>
    ELSE LET m == CHOOSE b \in bs : \A c \in bs : b.block_index <= c.block_index
         IN  <<m>> \o OrderByIndex(bs \ {m})

\* RecalculatedHash over a timestamp that the table gives back truncated
RecalculatedHashTruncatedTimestamp(b) ==
    _calculate_hash([index |-> b.block_index,
                     timestamp |-> isoformat(0),
                     data |-> json_loads(b.data),
                     previous_hash |-> b.previous_hash])

\* the hash verify_chain recomputes from a stored row (lines 186-193)
RecalculatedHash(b) ==
    _calculate_hash([index |-> b.block_index,
                     timestamp |-> isoformat(b.timestamp),
                     data |-> json_loads(b.data),
                     previous_hash |-> b.previous_hash])

\* VerifyFrom that looks at the newest block only
VerifyFromLastOnly(blks, i) ==
    LET n == Len(blks) IN
    IF n < 2
    THEN [valid |-> TRUE, message |-> <<"Blockchain is valid">>]
    ELSE IF blks[n].previous_hash # blks[n - 1].current_hash
    THEN [valid |-> FALSE,
          message |-> <<"Chain broken at block", blks[n].block_index>>]
    ELSE IF ~blks[n].data.valid_json
    THEN [valid |-> FALSE, message |-> <<"Verification error">>]
    ELSE IF RecalculatedHash(blks[n]) # blks[n].current_hash
    THEN [valid |-> FALSE,
          message |-> <<"Block has been tampered", blks[n].block_index>>]
    ELSE [valid |-> TRUE, message |-> <<"Blockchain is valid">>]

\* the loop of verify_chain from position i on (lines 177-199)
RECURSIVE VerifyFrom(_, _)
VerifyFrom(blks, i) ==
    IF i > Len(blks)
    THEN [valid |-> TRUE, message |-> <<"Blockchain is valid">>]
    ELSE IF blks[i].previous_hash # blks[i - 1].current_hash
    THEN [valid |-> FALSE,
          message |-> <<"Chain broken at block", blks[i].block_index>>]
    ELSE IF ~blks[i].data.valid_json
    THEN [valid |-> FALSE, message |-> <<"Verification error">>]
    ELSE IF RecalculatedHash(blks[i]) # blks[i].current_hash
    THEN [valid |-> FALSE,
          message |-> <<"Block has been tampered", blks[i].block_index>>]
    ELSE VerifyFrom(blks, i + 1)

verify_chain(bs) ==
    LET blks == OrderByIndex(bs) IN
    IF Len(blks) < 1
    THEN [valid |-> FALSE, message |-> <<"No blocks in chain">>]
    ELSE IF blks[1].block_index # 0
    THEN [valid |-> FALSE, message |-> <<"Genesis block missing">>]
    ELSE VerifyFrom(blks, 2)

(***************************************************************************)
(* State after module import: the global MLModel() exists, nothing loaded  *)
(***************************************************************************)
\* locals of a BlockchainLogger call: genesis is whether the constructor's query
\* of line 20 found block 0
NoLocal ==
    [genesis |-> FALSE, genesis_ts |-> <<>>, last_block |-> <<>>, timestamp |-> <<>>]

\* no reload_lists call is running; loaded is the pair of sets the last
\* _load_lists that got through has read
NoReload ==
    [pc |-> "idle", whitelist_domains |-> <<>>, blacklist_domains |-> <<>>,
     loaded |-> <<>>, errors |-> {}]

\* the state after construction, but for the pending calls of the classifier's
\* threshold policy and of the feature extractor
InitCore ==
    /\ is_loaded = FALSE
    /\ model = <<>>
    /\ engineReady = FALSE
    /\ whitelist = {}
    /\ blacklist = {}
    /\ blocks = {}
    /\ dnsLogs = <<>>
    /\ now = 0
    /\ pc = [t \in Threads |-> "idle"]
    /\ query = [t \in Threads |-> <<>>]
    /\ session = [t \in Threads |-> <<>>]
    /\ local = [t \in Threads |-> NoLocal]
    /\ result = [t \in Threads |-> <<>>]
    /\ errorLog = [t \in Threads |-> {}]
    /\ served = 0
    /\ tampered = <<>>
    /\ response = [t \in Threads |-> <<>>]
    /\ server = <<>>
    /\ thread = <<>>
    /\ servers = <<>>
    /\ lastCall = <<>>
    /\ verifyOut = <<>>
    /\ wlTable = PersistedWhitelist
    /\ blTable = PersistedBlacklist
    /\ listEdits = 0
    /\ reload = NoReload
    /\ requests = <<>>
    /\ decided = <<>>
    /\ upstreamCall = [pc |-> "idle", returned |-> <<>>, sockets |-> <<>>]

InitSystem ==
    /\ InitCore
    /\ predIn = <<>>
    /\ predOut = <<>>

Init ==
    /\ InitSystem
    /\ featIn = <<>>
    /\ featOut = <<>>

\* datetime.utcnow(): the instants a read of the clock may return, none
\* before the last one read
utcnow == now..MaxTime

(***************************************************************************)
(* FirewallEngine.__init__: get_ml_model() -> load_model(), _load_lists()  *)
(***************************************************************************)
\* load_model: the classifier state after it, given whether the artifact file
\* exists and unpickles
load_model(file_ok) ==
    IF file_ok
    THEN [is_loaded |-> TRUE, model |-> <<"RandomForest">>]
    ELSE [is_loaded |-> FALSE, model |-> <<>>]

\* RuleEngine.load_lists(whitelist_set, blacklist_set): the engine's two sets
\* after the call, both replaced at once
RuleEngine_load_lists(whitelist_set, blacklist_set) ==
    [whitelist |-> whitelist_set, blacklist |-> blacklist_set]

\* _load_lists_installs that hands over the sets in the wrong order
_load_lists_installs_swapped(step, cur, whitelist_domains, blacklist_domains) ==
    IF step = "load_lists"
    THEN RuleEngine_load_lists(blacklist_domains, whitelist_domains)
    ELSE cur

\* _load_lists_installs that hands the whitelist over as soon as it is read
_load_lists_installs_eagerly(step, cur, whitelist_domains, blacklist_domains) ==
    IF step = "read_whitelist"
    THEN RuleEngine_load_lists(whitelist_domains, cur.blacklist)
    ELSE IF step = "load_lists"
    THEN RuleEngine_load_lists(whitelist_domains, blacklist_domains)
    ELSE cur

\* _load_lists_installs that hands over what was read before the failure
_load_lists_installs_on_error(step, cur, whitelist_domains, blacklist_domains) ==
    IF step \in {"load_lists", "except"}
    THEN RuleEngine_load_lists(whitelist_domains, blacklist_domains)
    ELSE cur

\* the sets the rule engine holds after a step of _load_lists (line 134 reads
\* the whitelist table, line 135 the blacklist table, line 137 calls
\* load_lists): cur until the one call of line 137
_load_lists_installs(step, cur, whitelist_domains, blacklist_domains) ==
    IF step = "load_lists"
    THEN RuleEngine_load_lists(whitelist_domains, blacklist_domains)
    ELSE cur

\* lines 120-137, with the whitelist and blacklist tables readable at start-up
FirewallEngineInit ==
    /\ ~engineReady
    /\ \E file_ok \in BOOLEAN :
         /\ is_loaded' = IF is_loaded THEN is_loaded ELSE load_model(file_ok).is_loaded
         /\ model' = IF is_loaded THEN model ELSE load_model(file_ok).model
    /\ LET e == _load_lists_installs("load_lists",
                                     [whitelist |-> whitelist, blacklist |-> blacklist],
                                     wlTable, blTable)
       IN  /\ whitelist' = e.whitelist
           /\ blacklist' = e.blacklist
           /\ reload' = [reload EXCEPT !.loaded = <<e>>]
    /\ engineReady' = TRUE
    /\ UNCHANGED <<storeVars, now, threadVars, tampered, predVars, response,
                   serverVars, verifyOut, wlTable, blTable, listEdits, callVars>>

(***************************************************************************)
(* FirewallEngine.check_domain, one call per worker thread                 *)
(***************************************************************************)
\* the threads are alike: a new query goes to the first one that is free
FreeWorker ==
    IF pc["w1"] = "idle" THEN "w1" ELSE "w2"

\* lines 153-172: rule engine, then the classifier when the rules are uncertain
CheckDomain(t) ==
    /\ pc[t] = "idle"
    /\ t = FreeWorker
    /\ engineReady
    /\ served < MaxQueries
    /\ \E domain \in Domains, fault \in Faults, p_mal \in EngineProbs :
         LET d == check_domain_decide(domain, whitelist, blacklist, is_loaded,
                                      model, fault, p_mal, 100 - p_mal)
         IN  /\ query' = [query EXCEPT ![t] = <<d>>]
             /\ pc' = [pc EXCEPT ![t] = IF d.raised THEN "raise" ELSE "log_decision"]
    /\ served' = served + 1
    /\ UNCHANGED <<engineVars, storeVars, now, session, local, result, errorLog,
                   tampered, predVars, response, serverVars, verifyOut,
                   tableVars, callVars>>

\* log_entry that records a REVIEW decision as ALLOW
log_entry_review_as_allow(q) ==
    [domain |-> q.domain,
     decision |-> IF q.decision = "REVIEW" THEN "ALLOW" ELSE q.decision,
     confidence |-> q.confidence, reason |-> q.reason,
     rule_engine_result |-> q.method]

\* the row of dns_logs that _log_decision builds (lines 198-212)
log_entry(q) ==
    [domain |-> q.domain, decision |-> q.decision, confidence |-> q.confidence,
     reason |-> q.reason, rule_engine_result |-> q.method]

\* check_domain, line 180: what it returns for the decision q
check_domain_return(q) ==
    [raised |-> FALSE, decision |-> q.decision, confidence |-> q.confidence,
     reason |-> q.reason]

\* check_domain has decided and returns: pc and result of thread t
Returned(t) ==
    /\ pc' = [pc EXCEPT ![t] = "returned"]
    /\ result' = [result EXCEPT ![t] = <<check_domain_return(query[t][1])>>]

\* LogDecisionExcept that logs and re-raises
LogDecisionExceptReraises(messages) ==
    [errors |-> messages \cup {"Error logging decision"}, raised |-> TRUE]

\* what the except clause of _log_decision (lines 223-224) does with an
\* exception of its try body: the messages on the error log, and whether the
\* exception goes on to the caller
LogDecisionExcept(messages) ==
    [errors |-> messages \cup {"Error logging decision"}, raised |-> FALSE]

\* leaving _log_decision by an exception: the session is closed, its pending
\* rows are dropped
LogDecisionFails(t, messages) ==
    LET h == LogDecisionExcept(messages) IN
    /\ errorLog' = [errorLog EXCEPT ![t] = @ \cup h.errors]
    /\ session' = [session EXCEPT ![t] = <<>>]
    /\ local' = [local EXCEPT ![t] = NoLocal]
    /\ IF h.raised
       THEN pc' = [pc EXCEPT ![t] = "raise"] /\ UNCHANGED result
       ELSE Returned(t)

\* _log_decision up to the constructor's look for block 0 (lines 187-218, then
\* 16 and 20-38): open the session, extract the features, db.add(log_entry);
\* then BlockchainLogger(db) looks for block 0 and, finding none, reads the
\* clock for the genesis payload and hashes it.  With the audit chain disabled
\* the row is committed at line 221 and check_domain returns.
LogDecisionBegin(t) ==
    /\ pc[t] = "log_decision"
    /\ \E ok \in BOOLEAN, db_ok \in BOOLEAN :
         IF ~ok
         THEN /\ LogDecisionFails(t, {})
              /\ UNCHANGED <<storeVars, now>>
         ELSE IF ~BLOCKCHAIN_ENABLED
         THEN IF db_ok
              THEN /\ dnsLogs' = Append(dnsLogs, log_entry(query[t][1]))
                   /\ Returned(t)
                   /\ UNCHANGED <<blocks, now, session, local, errorLog>>
              ELSE /\ LogDecisionFails(t, {})
                   /\ UNCHANGED <<storeVars, now>>
         ELSE /\ session' = [session EXCEPT ![t] = <<log_entry(query[t][1])>>]
              /\ IF GenesisOf(blocks) # <<>>
                 THEN /\ pc' = [pc EXCEPT ![t] = "add_log"]
                      /\ local' = [local EXCEPT ![t].genesis = TRUE]
                      /\ UNCHANGED now
                 ELSE /\ \E t1 \in utcnow :
                           /\ local' = [local EXCEPT ![t].genesis_ts = <<t1>>]
                           /\ now' = t1
                      /\ pc' = [pc EXCEPT ![t] = "genesis_commit"]
              /\ UNCHANGED <<storeVars, errorLog, result>>
    /\ UNCHANGED <<engineVars, query, served, tampered, predVars, response,
                   serverVars, verifyOut,
                   tableVars, callVars>>

\* rollback that leaves the row of the failed flush in the table
rollback_keeps_row(bs, pending) == bs \cup {pending}

\* the table after a commit that failed: the pending row is discarded with the
\* transaction (self.db.rollback(), line 154, or the session closing with the
\* exception at dns_interceptor.py line 188)
rollback(bs, pending) == bs

\* _ensure_genesis_block, lines 40-53: read the clock again for the row, add
\* the row and commit the session (the pending dns_logs row goes with it).
\* Reached from __init__ (line 16) or from add_log (line 103).
EnsureGenesisCommit(t) ==
    /\ pc[t] \in {"genesis_commit", "add_log_genesis_commit"}
    /\ \E db_ok \in BOOLEAN, t2 \in utcnow :
         LET g == genesis_block(local[t].genesis_ts[1], t2) IN
         /\ now' = t2
         /\ IF db_ok /\ UniqueOk(blocks, g)
            THEN /\ blocks' = blocks \cup {g}
                 /\ dnsLogs' = dnsLogs \o session[t]
                 /\ session' = [session EXCEPT ![t] = <<>>]
                 /\ pc' = [pc EXCEPT ![t] =
                             IF pc[t] = "genesis_commit" THEN "add_log"
                             ELSE "add_log_requery"]
                 /\ local' = [local EXCEPT ![t] = NoLocal]
                 /\ UNCHANGED <<errorLog, result>>
            ELSE /\ LogDecisionFails(t, IF pc[t] = "genesis_commit" THEN {}
                                         ELSE {"Error adding blockchain log"})
                 /\ blocks' = rollback(blocks, g)
                 /\ UNCHANGED dnsLogs
    /\ UNCHANGED <<engineVars, query, served, tampered, predVars, response,
                   serverVars, verifyOut,
                   tableVars, callVars>>

\* add_log, lines 98-109: read the last block and the clock.  On an empty
\* table add_log makes the genesis block itself (line 103, then 20-38) and
\* reads block 0 back (lines 104-106).
AddLogRead(t) ==
    /\ pc[t] \in {"add_log", "add_log_requery"}
    /\ LET last == IF pc[t] = "add_log" THEN LastBlock(blocks) ELSE GenesisOf(blocks) IN
       IF last = <<>> /\ pc[t] = "add_log"
       THEN /\ \E t1 \in utcnow :
                 /\ local' = [local EXCEPT ![t].genesis_ts = <<t1>>]
                 /\ now' = t1
            /\ pc' = [pc EXCEPT ![t] = "add_log_genesis_commit"]
            /\ UNCHANGED <<errorLog, session, result>>
       ELSE IF last = <<>>
       THEN \* last_block.block_index on None: AttributeError
            /\ LogDecisionFails(t, {"Error adding blockchain log"})
            /\ UNCHANGED now
       ELSE /\ \E timestamp \in utcnow :
                 /\ local' = [local EXCEPT ![t].last_block = last,
                                           ![t].timestamp = <<timestamp>>]
                 /\ now' = timestamp
            /\ pc' = [pc EXCEPT ![t] = "add_log_write"]
            /\ UNCHANGED <<errorLog, session, result>>
    /\ UNCHANGED <<engineVars, storeVars, query, served, tampered, predVars, response,
                   serverVars, verifyOut,
                   tableVars, callVars>>

\* add_log, lines 111-155: build the block on the block read, add it and
\* commit; a failed commit is rolled back and raised.  After a commit the
\* db.commit() of line 221 has nothing to send, and check_domain returns.
AddLogWrite(t) ==
    /\ pc[t] = "add_log_write"
    /\ \E db_ok \in BOOLEAN :
         LET q == query[t][1]
             b == add_log_block(local[t].last_block[1], local[t].timestamp[1],
                                q.domain, q.decision, q.confidence, q.reason)
         IN  IF db_ok /\ UniqueOk(blocks, b)
             THEN /\ blocks' = blocks \cup {b}
                  /\ dnsLogs' = dnsLogs \o session[t]
                  /\ session' = [session EXCEPT ![t] = <<>>]
                  /\ local' = [local EXCEPT ![t] = NoLocal]
                  /\ Returned(t)
                  /\ UNCHANGED errorLog
             ELSE /\ LogDecisionFails(t, {"Error adding blockchain log"})
                  /\ blocks' = rollback(blocks, b)
                  /\ UNCHANGED dnsLogs
    /\ UNCHANGED <<engineVars, now, query, served, tampered, predVars, response,
                   serverVars, verifyOut,
                   tableVars, callVars>>

\* SmartDNSResolver.resolve after check_domain: the query is answered and the
\* worker thread ends
ResolveReturn(t) ==
    /\ pc[t] = "returned"
    /\ pc' = [pc EXCEPT ![t] = "idle"]
    /\ query' = [query EXCEPT ![t] = <<>>]
    /\ result' = [result EXCEPT ![t] = <<>>]
    /\ errorLog' = [errorLog EXCEPT ![t] = {}]
    /\ UNCHANGED <<engineVars, storeVars, now, session, local, served, tampered,
                   predVars, response, serverVars, verifyOut,
                   tableVars, callVars>>

Worker(t) ==
    \/ CheckDomain(t)
    \/ LogDecisionBegin(t)
    \/ EnsureGenesisCommit(t)
    \/ AddLogRead(t)
    \/ AddLogWrite(t)
    \/ ResolveReturn(t)

Next ==
    \/ FirewallEngineInit
    \/ \E t \in Threads : Worker(t)

Spec == Init /\ [][Next]_vars

\* queries handled one after the other: a single handler thread
NextSequential ==
    \/ FirewallEngineInit
    \/ Worker("w1")

SpecSequential == Init /\ [][NextSequential]_vars

(***************************************************************************)
(* A query abandoned: the handler threads are daemon threads (line 248),   *)
(* so a query in flight when the server is stopped and the process ends    *)
(* goes no further                                                         *)
(***************************************************************************)
\* thread t ends inside check_domain, wherever it is: its session is never
\* committed, and the database drops the open transaction with its pending
\* rows
Abandon(t) ==
    /\ pc[t] \in {"log_decision", "genesis_commit", "add_log", "add_log_requery",
                  "add_log_genesis_commit", "add_log_write"}
    /\ pc' = [pc EXCEPT ![t] = "idle"]
    /\ query' = [query EXCEPT ![t] = <<>>]
    /\ session' = [session EXCEPT ![t] = <<>>]
    /\ local' = [local EXCEPT ![t] = NoLocal]
    /\ errorLog' = [errorLog EXCEPT ![t] = {}]
    /\ UNCHANGED <<engineVars, storeVars, now, result, served, tampered, predVars,
                   response, serverVars, verifyOut, tableVars, callVars>>

NextAbandon ==
    \/ FirewallEngineInit
    \/ \E t \in Threads : Worker(t) \/ Abandon(t)

SpecAbandon == Init /\ [][NextAbandon]_vars

(***************************************************************************)
(* SmartDNSResolver.resolve after check_domain, with the reply kept: one   *)
(* handler thread serving queries                                          *)
(***************************************************************************)
\* self.blocked_ip (line 23) and the ttl of the synthesized answer (line 58)
blocked_ip == "0.0.0.0"
SinkholeTtl == 60

\* how the exchange with the upstream resolver may end
UpstreamOutcomes == {"answer", "empty_answer", "timeout", "send_error", "unparseable"}

\* request.reply() (line 38): the reply to the client's request, no answer in it
request_reply(qname) ==
    [id |-> "request", qname |-> qname, answers |-> <<>>]

\* reply.add_answer(RR(qname, QTYPE.A, rdata=A(self.blocked_ip), ttl=60))
add_answer_blocked(reply, qname) ==
    [reply EXCEPT !.answers =
        Append(@, [rname |-> qname, rtype |-> "A", rdata |-> blocked_ip,
                   ttl |-> SinkholeTtl])]

\* the record DNSRecord.parse makes of what the upstream resolver sent in
\* answer to the query _query_upstream built (a query of its own, with its own id)
UpstreamRecord(qname, outcome) ==
    [id |-> "upstream_query", qname |-> qname,
     answers |-> IF outcome = "answer"
                 THEN <<[rname |-> qname, rtype |-> "A", rdata |-> "upstream",
                         ttl |-> 300]>>
                 ELSE <<>>]

\* _query_upstream (lines 85-114): the parsed response, or None when sending,
\* receiving within the timeout or parsing fails
_query_upstream(qname, outcome) ==
    IF outcome \in {"answer", "empty_answer"}
    THEN <<UpstreamRecord(qname, outcome)>>
    ELSE <<>>

\* forward that returns whatever _query_upstream returned
forward_unchecked(reply, upstream_response) ==
    IF upstream_response # <<>> THEN upstream_response[1] ELSE <<>>

\* lines 67-69 and 74-76: the upstream response replaces the reply when there
\* is one
forward(reply, upstream_response) ==
    IF upstream_response # <<>> THEN upstream_response[1] ELSE reply

\* ResolveExcept that logs and re-raises
ResolveExceptReraises(reply) ==
    [raised |-> TRUE, reply |-> <<>>, upstream |-> <<>>]

\* the except clause of resolve (lines 81-83): the error is logged and the
\* reply built so far is returned
ResolveExcept(reply) ==
    [raised |-> FALSE, reply |-> <<reply>>, upstream |-> <<>>]

\* resolve_respond that forwards a blocked query to the upstream resolver too
resolve_respond_block_forwards(qname, returned, outcome) ==
    LET reply == request_reply(qname) IN
    IF returned = <<>>
    THEN ResolveExcept(reply)
    ELSE [raised |-> FALSE,
          reply |-> <<forward(add_answer_blocked(reply, qname),
                              _query_upstream(qname, outcome))>>,
          upstream |-> <<outcome>>]

\* resolve_respond with no except clause around the upstream exchange
resolve_respond_upstream_raises(qname, returned, outcome) ==
    LET reply == request_reply(qname) IN
    IF returned = <<>>
    THEN ResolveExcept(reply)
    ELSE IF returned[1].decision = "BLOCK"
    THEN [raised |-> FALSE, reply |-> <<add_answer_blocked(reply, qname)>>,
          upstream |-> <<>>]
    ELSE IF outcome \in {"timeout", "send_error", "unparseable"}
    THEN [raised |-> TRUE, reply |-> <<>>, upstream |-> <<outcome>>]
    ELSE [raised |-> FALSE,
          reply |-> <<forward(reply, _query_upstream(qname, outcome))>>,
          upstream |-> <<outcome>>]

\* resolve, lines 52-83: what it does with what check_domain returned (<<>>
\* when check_domain raised); upstream is how the exchange with the upstream
\* resolver ended, <<>> when there was none
resolve_respond(qname, returned, outcome) ==
    LET reply == request_reply(qname) IN
    IF returned = <<>>
    THEN ResolveExcept(reply)
    ELSE IF returned[1].decision = "BLOCK"
    THEN [raised |-> FALSE, reply |-> <<add_answer_blocked(reply, qname)>>,
          upstream |-> <<>>]
    ELSE IF returned[1].decision = "REVIEW"
    THEN [raised |-> FALSE,
          reply |-> <<forward(reply, _query_upstream(qname, outcome))>>,
          upstream |-> <<outcome>>]
    ELSE [raised |-> FALSE,
          reply |-> <<forward(reply, _query_upstream(qname, outcome))>>,
          upstream |-> <<outcome>>]

\* Decided that holds as soon as the decision is computed
DecidedBeforeReturn(t) ==
    pc[t] \in {"returned", "raise", "log_decision"}

\* check_domain has come back to resolve, by return or by exception
Decided(t) ==
    pc[t] \in {"returned", "raise"}

ResolveRespond(t) ==
    /\ Decided(t)
    /\ \E outcome \in UpstreamOutcomes :
         LET r == resolve_respond(query[t][1].domain, result[t], outcome) IN
         /\ response' = [response EXCEPT ![t] = <<r>>]
         /\ pc' = [pc EXCEPT ![t] = IF r.raised THEN "escaped" ELSE "responded"]
    /\ UNCHANGED <<engineVars, storeVars, now, query, session, local, result,
                   errorLog, served, tampered, predVars, serverVars, verifyOut,
                   tableVars, callVars>>

\* the reply has gone to the client; the handler thread takes the next query
ResolveDone(t) ==
    /\ pc[t] = "responded"
    /\ pc' = [pc EXCEPT ![t] = "idle"]
    /\ query' = [query EXCEPT ![t] = <<>>]
    /\ result' = [result EXCEPT ![t] = <<>>]
    /\ errorLog' = [errorLog EXCEPT ![t] = {}]
    /\ response' = [response EXCEPT ![t] = <<>>]
    /\ UNCHANGED <<engineVars, storeVars, now, session, local, served, tampered,
                   predVars, serverVars, verifyOut,
                   tableVars, callVars>>

\* the steps of _log_decision
LogDecision(t) ==
    \/ LogDecisionBegin(t)
    \/ EnsureGenesisCommit(t)
    \/ AddLogRead(t)
    \/ AddLogWrite(t)

NextResolve ==
    \/ FirewallEngineInit
    \/ CheckDomain("w1")
    \/ LogDecision("w1")
    \/ ResolveRespond("w1")
    \/ ResolveDone("w1")

SpecResolve == Init /\ [][NextResolve]_vars

\* a handler thread runs on: database calls come back or fail, and the
\* upstream socket has a timeout
SpecResolveFair ==
    SpecResolve /\ WF_vars(LogDecision("w1") \/ ResolveRespond("w1") \/ ResolveDone("w1"))

(***************************************************************************)
(* SmartDNSResolver._query_upstream, lines 85-114, statement by statement, *)
(* with the sockets it opens                                               *)
(***************************************************************************)
MaxUpstream == 3

\* a socket object: the descriptor is open or closed, and the object is held
\* by the local variable sock of a running call or by nothing
NewSocket == [state |-> "open", held |-> TRUE]

\* leaving _query_upstream with a result: the frame goes, and with it the
\* reference to the call's socket
QueryReturns(outcome, socks) ==
    upstreamCall' =
        [pc |-> "idle",
         returned |-> <<[outcome |-> outcome,
                         response |-> _query_upstream("good.com", outcome)]>>,
         sockets |-> [i \in 1..Len(socks) |-> [socks[i] EXCEPT !.held = FALSE]]]

\* the socket of the running call: the last one opened
OwnSocket == Len(upstreamCall.sockets)

\* sock.close()
close(socks, i) == [socks EXCEPT ![i].state = "closed"]

\* lines 98-102: build the query and open the socket; socket.socket may fail,
\* which the except clause of lines 112-114 turns into None
QueryOpen ==
    /\ upstreamCall.pc = "idle"
    /\ Len(upstreamCall.sockets) < MaxUpstream
    /\ \E ok \in BOOLEAN :
         IF ok
         THEN upstreamCall' = [upstreamCall EXCEPT
                                 !.pc = "sendto",
                                 !.sockets = Append(@, NewSocket)]
         ELSE QueryReturns("socket_error", upstreamCall.sockets)
    /\ UNCHANGED <<engineVars, storeVars, now, threadVars, tampered, predVars,
                   response, server, thread, servers, lastCall, verifyOut,
                   tableVars, callVars>>

\* line 103: sock.sendto; an error goes to the except clause
QuerySend ==
    /\ upstreamCall.pc = "sendto"
    /\ \E ok \in BOOLEAN :
         IF ok
         THEN upstreamCall' = [upstreamCall EXCEPT !.pc = "recvfrom"]
         ELSE QueryReturns("send_error", upstreamCall.sockets)
    /\ UNCHANGED <<engineVars, storeVars, now, threadVars, tampered, predVars,
                   response, server, thread, servers, lastCall, verifyOut,
                   tableVars, callVars>>

\* lines 106-107: sock.recvfrom, then sock.close(); the timeout of 5 seconds
\* goes to the except clause
QueryReceive ==
    /\ upstreamCall.pc = "recvfrom"
    /\ \E ok \in BOOLEAN :
         IF ok
         THEN upstreamCall' = [upstreamCall EXCEPT
                                 !.pc = "parse",
                                 !.sockets = close(@, OwnSocket)]
         ELSE QueryReturns("timeout", upstreamCall.sockets)
    /\ UNCHANGED <<engineVars, storeVars, now, threadVars, tampered, predVars,
                   response, server, thread, servers, lastCall, verifyOut,
                   tableVars, callVars>>

\* lines 109-110: DNSRecord.parse and return; a parse error goes to the
\* except clause
QueryParse ==
    /\ upstreamCall.pc = "parse"
    /\ \E outcome \in {"answer", "empty_answer", "unparseable"} :
         QueryReturns(outcome, upstreamCall.sockets)
    /\ UNCHANGED <<engineVars, storeVars, now, threadVars, tampered, predVars,
                   response, server, thread, servers, lastCall, verifyOut,
                   tableVars, callVars>>

\* the interpreter finalizes a socket object that nothing holds any more and
\* that was left open, at a moment of its choosing, which closes its descriptor
SocketFinalized ==
    /\ \E i \in 1..Len(upstreamCall.sockets) :
         /\ ~upstreamCall.sockets[i].held
         /\ upstreamCall.sockets[i].state = "open"
         /\ upstreamCall' = [upstreamCall EXCEPT !.sockets[i].state = "closed"]
    /\ UNCHANGED <<engineVars, storeVars, now, threadVars, tampered, predVars,
                   response, server, thread, servers, lastCall, verifyOut,
                   tableVars, callVars>>

NextUpstream ==
    \/ QueryOpen
    \/ QuerySend
    \/ QueryReceive
    \/ QueryParse
    \/ SocketFinalized

SpecUpstream == Init /\ [][NextUpstream]_vars

(***************************************************************************)
(* DNSFirewallServer: start() and stop() on one server object, whose       *)
(* constructor is FirewallEngineInit                                       *)
(***************************************************************************)
MaxStarts == 3
MaxStops == 2

\* a DNSServer object whose socket is bound and whose start method runs in a
\* thread; stops counts the calls of its stop method
NewServer == [serving |-> TRUE, stops |-> 0]

\* the DNSServer objects that are bound and serving
Serving == {i \in 1..Len(servers) : servers[i].serving}

\* start(), lines 236-255.  DNSServer(...) binds the socket: when that fails
\* the error is logged and raised, self.server is not assigned.  Otherwise the
\* new object replaces self.server and a new thread runs its start method.
start ==
    /\ engineReady
    /\ Len(servers) < MaxStarts
    /\ \E bind_ok \in BOOLEAN :
         IF bind_ok
         THEN /\ servers' = Append(servers, NewServer)
              /\ server' = <<Len(servers) + 1>>
              /\ thread' = <<Len(servers) + 1>>
              /\ lastCall' = <<[op |-> "start", raised |-> FALSE]>>
         ELSE /\ lastCall' = <<[op |-> "start", raised |-> TRUE]>>
              /\ UNCHANGED <<server, thread, servers>>
    /\ UNCHANGED <<engineVars, storeVars, now, threadVars, tampered, predVars,
                   response, verifyOut, upstreamCall,
                   tableVars, callVars>>

\* stop(), lines 257-261: self.server.stop() whenever self.server is set
stop ==
    /\ engineReady
    /\ IF server # <<>>
       THEN /\ servers[server[1]].stops < MaxStops
            /\ servers' = [servers EXCEPT ![server[1]] =
                             [serving |-> FALSE, stops |-> @.stops + 1]]
       ELSE UNCHANGED servers
    /\ lastCall' = <<[op |-> "stop", raised |-> FALSE]>>
    /\ UNCHANGED <<server, thread>>
    /\ UNCHANGED <<engineVars, storeVars, now, threadVars, tampered, predVars,
                   response, verifyOut, upstreamCall,
                   tableVars, callVars>>

NextServer ==
    \/ FirewallEngineInit
    \/ start
    \/ stop

SpecServer == Init /\ [][NextServer]_vars

(***************************************************************************)
(* GET /verify (api/routes/blockchain.py): BlockchainLogger(db), then      *)
(* verify_chain, beside one handler thread appending                       *)
(***************************************************************************)
\* verify_blockchain, lines 16-25.  The constructor makes block 0 when it finds
\* none (two reads of the clock, one commit, which may fail: the request then
\* ends in an error).  verify_chain reads the table; a failing read is caught
\* at lines 201-203.
verify_blockchain ==
    /\ engineReady
    /\ \E db_ok \in BOOLEAN, read_ok \in BOOLEAN, t1 \in utcnow :
         \E t2 \in t1..MaxTime :
            LET made == IF GenesisOf(blocks) = <<>>
                        THEN {genesis_block(t1, t2)} ELSE {}
            IN  IF made # {} /\ ~db_ok
                THEN /\ verifyOut' = <<[raised |-> TRUE, valid |-> FALSE,
                                        message |-> <<>>]>>
                     /\ UNCHANGED <<blocks, now>>
                ELSE /\ blocks' = blocks \cup made
                     /\ now' = IF made # {} THEN t2 ELSE now
                     /\ verifyOut' =
                          <<IF read_ok
                            THEN [raised |-> FALSE,
                                  valid |-> verify_chain(blocks').valid,
                                  message |-> verify_chain(blocks').message]
                            ELSE [raised |-> FALSE, valid |-> FALSE,
                                  message |-> <<"Verification error">>]>>
    /\ UNCHANGED <<engineVars, dnsLogs, threadVars, tampered, predVars, response,
                   serverVars, tableVars, callVars>>

NextVerify ==
    \/ FirewallEngineInit
    \/ Worker("w1")
    \/ verify_blockchain

SpecVerify == Init /\ [][NextVerify]_vars

(***************************************************************************)
(* GET /, GET /verify and GET /stats of api/routes/blockchain.py, beside   *)
(* one handler thread appending                                            *)
(***************************************************************************)
\* the blocks BlockchainLogger(db) adds (blockchain_log.py lines 14-53): block
\* 0, when the query of line 20 finds none
BlockchainLogger_init(bs, t1, t2) ==
    IF GenesisOf(bs) = <<>> THEN {genesis_block(t1, t2)} ELSE {}

\* the n last items of a sequence in reverse order:
\* order_by(block_index.desc()).limit(n).all()
RecentOf(blks, n) ==
    [i \in 1..(IF Len(blks) < n THEN Len(blks) ELSE n) |-> blks[Len(blks) + 1 - i]]

\* get_recent_blocks, lines 232-255
get_recent_blocks(bs, limit, read_ok) ==
    LET recent == RecentOf(OrderByIndex(bs), limit) IN
    IF ~read_ok \/ \E i \in 1..Len(recent) : ~recent[i].data.valid_json
    THEN <<>>
    ELSE [i \in 1..Len(recent) |->
            [block_index |-> recent[i].block_index,
             timestamp |-> isoformat(recent[i].timestamp),
             domain |-> recent[i].domain,
             decision |-> recent[i].decision,
             confidence |-> recent[i].confidence,
             current_hash |-> recent[i].current_hash,
             previous_hash |-> recent[i].previous_hash,
             data |-> json_loads(recent[i].data)]]

\* get_chain_stats, lines 205-230
get_chain_stats(bs, read_ok) ==
    IF ~read_ok THEN [error |-> TRUE]
    ELSE LET blks == OrderByIndex(bs) IN
         [error |-> FALSE,
          total_blocks |-> Cardinality(bs),
          first_block_time |-> IF bs = {} THEN <<>> ELSE <<blks[1].timestamp>>,
          last_block_time |-> IF bs = {} THEN <<>> ELSE <<LastBlock(bs)[1].timestamp>>,
          is_valid |-> verify_chain(bs).valid,
          validation_message |-> verify_chain(bs).message]

\* a request to one of the three routes (lines 9-32): the constructor, whose
\* commit of a new block 0 may fail and end the request in an error, then the
\* read
BlockchainRoute(route) ==
    /\ engineReady
    /\ \E db_ok \in BOOLEAN, read_ok \in BOOLEAN, t1 \in utcnow :
         \E t2 \in t1..MaxTime :
            LET made == BlockchainLogger_init(blocks, t1, t2) IN
            IF made # {} /\ ~db_ok
            THEN /\ verifyOut' = <<[route |-> route, raised |-> TRUE]>>
                 /\ UNCHANGED <<blocks, now>>
            ELSE /\ blocks' = blocks \cup made
                 /\ now' = IF made # {} THEN t2 ELSE now
                 /\ verifyOut' =
                      <<[route |-> route, raised |-> FALSE,
                         body |->
                           CASE route = "get_blockchain" ->
                                  <<get_recent_blocks(blocks', 20, read_ok)>>
                             [] route = "verify_blockchain" ->
                                  <<IF read_ok THEN verify_chain(blocks')
                                    ELSE [valid |-> FALSE,
                                          message |-> <<"Verification error">>]>>
                             [] route = "get_blockchain_stats" ->
                                  <<get_chain_stats(blocks', read_ok)>>]>>
    /\ UNCHANGED <<engineVars, dnsLogs, threadVars, tampered, predVars, response,
                   serverVars, tableVars, callVars>>

get_blockchain == BlockchainRoute("get_blockchain")
verify_blockchain_read == BlockchainRoute("verify_blockchain")
get_blockchain_stats == BlockchainRoute("get_blockchain_stats")

NextReads ==
    \/ FirewallEngineInit
    \/ Worker("w1")
    \/ get_blockchain
    \/ verify_blockchain_read
    \/ get_blockchain_stats

SpecReads == Init /\ [][NextReads]_vars

(***************************************************************************)
(* SmartDNSResolver.resolve, lines 38-50: from the name in the request to  *)
(* the domain check_domain is called with, for a pair of requests          *)
(***************************************************************************)
\* the names asked for, as the labels on the wire (DNS compares names without
\* regard to case, and resolvers send mixed-case names); <<>> is the root
QnameLabels ==
    {<<"good", "com">>, <<"GOOD", "COM">>, <<"Good", "com">>,
     <<"bad", "com">>, <<"Bad", "Com">>, <<"new", "io">>, <<"NEW", "io">>, <<>>}

\* str(request.q.qname): the labels as they were sent, each followed by a dot;
\* the root is "."
RECURSIVE str_qname(_)
str_qname(labels) ==
    IF labels = <<>> THEN "."
    ELSE IF Len(labels) = 1 THEN Head(labels) \o "."
    ELSE Head(labels) \o "." \o str_qname(Tail(labels))

\* text.rstrip('.')
RECURSIVE rstrip_dot(_)
rstrip_dot(text) ==
    IF Len(text) > 0 /\ SubSeq(text, Len(text), Len(text)) = "."
    THEN rstrip_dot(SubSeq(text, 1, Len(text) - 1))
    ELSE text

\* line 39: qname = str(request.q.qname).rstrip('.')
resolve_qname(labels) == rstrip_dot(str_qname(labels))

\* resolve for two requests under the same lists and the same classifier (which
\* reports one probability for one domain string): lines 39 and 47-50, and the
\* deciding part of check_domain
ResolvePair ==
    /\ engineReady
    /\ \E n1 \in QnameLabels, n2 \in QnameLabels, fault \in Faults,
          p1 \in EngineProbs, p2 \in EngineProbs :
         LET q1 == resolve_qname(n1)
             q2 == resolve_qname(n2)
         IN  /\ q1 = q2 => p1 = p2
             /\ requests' = <<n1, n2>>
             /\ decided' =
                  <<check_domain_decide(q1, whitelist, blacklist, is_loaded, model,
                                        fault, p1, 100 - p1),
                    check_domain_decide(q2, whitelist, blacklist, is_loaded, model,
                                        fault, p2, 100 - p2)>>
    /\ UNCHANGED <<engineVars, storeVars, now, threadVars, tampered, predVars,
                   response, serverVars, verifyOut, tableVars, featIn, featOut>>

NextQname ==
    \/ FirewallEngineInit
    \/ ResolvePair

SpecQname == Init /\ [][NextQname]_vars

(***************************************************************************)
(* Review queue (api/routes/review.py): POST /approve/{log_id} and         *)
(* POST /block/{log_id}, beside one handler thread                         *)
(***************************************************************************)
\* review_commit that also rewrites the decision of the audit blocks of the domain
review_commit_rewrites_blocks(logs, table, bs, log_id, decision, reason) ==
    [dnsLogs |-> [logs EXCEPT ![log_id].decision = decision,
                              ![log_id].reason = <<reason>>],
     table |-> table \cup {logs[log_id].domain},
     blocks |-> {IF b.domain = logs[log_id].domain
                 THEN [b EXCEPT !.decision = decision] ELSE b : b \in bs}]

\* what the commit of a review action writes (lines 38-50 and 63-76): a row
\* for the domain in the list's table, and decision and reason of the dns_logs
\* row log_id; nothing of blockchain_logs is in the session
review_commit(logs, table, bs, log_id, decision, reason) ==
    [dnsLogs |-> [logs EXCEPT ![log_id].decision = decision,
                              ![log_id].reason = <<reason>>],
     table |-> table \cup {logs[log_id].domain},
     blocks |-> bs]

\* approve_domain, lines 29-52.  The domain column of whitelist is unique: the
\* commit of a domain already listed fails, and the request ends in an error
\* with nothing written.
approve_domain ==
    /\ engineReady
    /\ \E log_id \in 1..(Len(dnsLogs) + 1), db_ok \in BOOLEAN :
         IF log_id > Len(dnsLogs) \/ ~db_ok \/ dnsLogs[log_id].domain \in wlTable
         THEN UNCHANGED <<storeVars, wlTable>>
         ELSE LET c == review_commit(dnsLogs, wlTable, blocks, log_id, "ALLOW",
                                     "Manually approved")
              IN  /\ dnsLogs' = c.dnsLogs
                  /\ wlTable' = c.table
                  /\ blocks' = c.blocks
    /\ UNCHANGED <<engineVars, now, threadVars, tampered, predVars, response,
                   serverVars, verifyOut, blTable, listEdits, reload, callVars>>

\* block_domain, lines 54-78
block_domain ==
    /\ engineReady
    /\ \E log_id \in 1..(Len(dnsLogs) + 1), db_ok \in BOOLEAN :
         IF log_id > Len(dnsLogs) \/ ~db_ok \/ dnsLogs[log_id].domain \in blTable
         THEN UNCHANGED <<storeVars, blTable>>
         ELSE LET c == review_commit(dnsLogs, blTable, blocks, log_id, "BLOCK",
                                     "Manually blocked")
              IN  /\ dnsLogs' = c.dnsLogs
                  /\ blTable' = c.table
                  /\ blocks' = c.blocks
    /\ UNCHANGED <<engineVars, now, threadVars, tampered, predVars, response,
                   serverVars, verifyOut, wlTable, listEdits, reload, callVars>>

NextReview ==
    \/ FirewallEngineInit
    \/ Worker("w1")
    \/ approve_domain
    \/ block_domain

SpecReview == Init /\ [][NextReview]_vars

(***************************************************************************)
(* DNSFirewallServer.reload_lists -> FirewallEngine._load_lists, beside    *)
(* rows being added to and deleted from the whitelist and blacklist tables *)
(* and beside check_domain deciding                                        *)
(***************************************************************************)
MaxEdits == 2

\* a committed insert or delete of one row of table whitelist or blacklist (by
\* the review routes or any other client of the database)
ListEdit ==
    /\ listEdits < MaxEdits
    /\ \E d \in Domains, white \in BOOLEAN, insert \in BOOLEAN :
         LET table == IF white THEN wlTable ELSE blTable
             after == IF insert THEN table \cup {d} ELSE table \ {d}
         IN  /\ after # table
             /\ wlTable' = IF white THEN after ELSE wlTable
             /\ blTable' = IF white THEN blTable ELSE after
    /\ listEdits' = listEdits + 1
    /\ UNCHANGED <<engineVars, storeVars, now, threadVars, tampered, predVars,
                   response, serverVars, verifyOut, reload, callVars>>

\* the rule engine's sets
CurrentLists == [whitelist |-> whitelist, blacklist |-> blacklist]

\* _load_lists left by the except clause of lines 139-140; reload_lists goes on
\* to log "Lists reloaded" and returns
LoadListsFails ==
    reload' = [reload EXCEPT !.pc = "idle", !.whitelist_domains = <<>>,
                             !.blacklist_domains = <<>>,
                             !.errors = {"Error loading lists"}]

\* reload_lists, then _load_lists lines 130-134: open a session and read the
\* whitelist table
ReloadReadWhitelist ==
    /\ engineReady
    /\ reload.pc = "idle"
    /\ \E ok \in BOOLEAN :
         IF ok
         THEN LET e == _load_lists_installs("read_whitelist", CurrentLists,
                                           wlTable, {})
              IN  /\ reload' = [reload EXCEPT !.pc = "read_blacklist",
                                              !.whitelist_domains = <<wlTable>>,
                                              !.errors = {}]
                  /\ whitelist' = e.whitelist
                  /\ blacklist' = e.blacklist
         ELSE LET e == _load_lists_installs("except", CurrentLists, {}, {})
              IN  /\ LoadListsFails
                  /\ whitelist' = e.whitelist
                  /\ blacklist' = e.blacklist
    /\ UNCHANGED <<is_loaded, model, engineReady, storeVars, now, threadVars,
                   tampered, predVars, response, serverVars, verifyOut, wlTable,
                   blTable, listEdits, callVars>>

\* _load_lists line 135: read the blacklist table
ReloadReadBlacklist ==
    /\ reload.pc = "read_blacklist"
    /\ \E ok \in BOOLEAN :
         IF ok
         THEN LET e == _load_lists_installs("read_blacklist", CurrentLists,
                                           reload.whitelist_domains[1], blTable)
              IN  /\ reload' = [reload EXCEPT !.pc = "load_lists",
                                              !.blacklist_domains = <<blTable>>]
                  /\ whitelist' = e.whitelist
                  /\ blacklist' = e.blacklist
         ELSE LET e == _load_lists_installs("except", CurrentLists,
                                           reload.whitelist_domains[1], {})
              IN  /\ LoadListsFails
                  /\ whitelist' = e.whitelist
                  /\ blacklist' = e.blacklist
    /\ UNCHANGED <<is_loaded, model, engineReady, storeVars, now, threadVars,
                   tampered, predVars, response, serverVars, verifyOut, wlTable,
                   blTable, listEdits, callVars>>

\* _load_lists lines 137-138: hand both sets to the rule engine
ReloadLoadLists ==
    /\ reload.pc = "load_lists"
    /\ LET e == _load_lists_installs("load_lists", CurrentLists,
                                     reload.whitelist_domains[1],
                                     reload.blacklist_domains[1])
       IN  /\ whitelist' = e.whitelist
           /\ blacklist' = e.blacklist
           /\ reload' = [reload EXCEPT !.pc = "idle", !.whitelist_domains = <<>>,
                                       !.blacklist_domains = <<>>,
                                       !.loaded = <<e>>]
    /\ UNCHANGED <<is_loaded, model, engineReady, storeVars, now, threadVars,
                   tampered, predVars, response, serverVars, verifyOut, wlTable,
                   blTable, listEdits, callVars>>

\* check_domain, lines 155-170, on a handler thread: the rule engine is asked
\* with the sets it holds at that moment
Decide ==
    /\ engineReady
    /\ \E domain \in Domains, fault \in Faults, p_mal \in EngineProbs :
         decided' = <<check_domain_decide(domain, whitelist, blacklist, is_loaded,
                                          model, fault, p_mal, 100 - p_mal)>>
    /\ UNCHANGED <<engineVars, storeVars, now, threadVars, tampered, predVars,
                   response, serverVars, verifyOut, tableVars, requests, featIn,
                   featOut>>

\* names with structural features: a suspicious TLD, more than 50 characters,
\* a name segment of 17 different characters, and all three at once
StructuralDomains ==
    {"evil.tk",
     "a-very-long-subdomain-label.another-long-label.example.com",
     "q7x2kz9v4mw1p8j3t.com",
     "q7x2kz9v4mw1p8j3t.aaaaaaaaaa.bbbbbbbbbb.cccccccccc.tk"}

RuleDomains == Domains \cup StructuralDomains

\* the whitelist and blacklist tables as the administrative API left them
\* before the engine is constructed
TablesHold ==
    /\ ~engineReady
    /\ \E wl \in SUBSET RuleDomains, bl \in SUBSET RuleDomains :
         /\ Cardinality(wl) <= 2
         /\ Cardinality(bl) <= 2
         /\ wlTable' = wl
         /\ blTable' = bl
    /\ UNCHANGED <<engineVars, storeVars, now, threadVars, tampered, predVars,
                   response, serverVars, verifyOut, listEdits, reload, callVars>>

\* check_domain, lines 155-170, for any of the names
DecideStructural ==
    /\ engineReady
    /\ \E domain \in RuleDomains, fault \in Faults, p_mal \in EngineProbs :
         decided' = <<check_domain_decide(domain, whitelist, blacklist, is_loaded,
                                          model, fault, p_mal, 100 - p_mal)>>
    /\ UNCHANGED <<engineVars, storeVars, now, threadVars, tampered, predVars,
                   response, serverVars, verifyOut, tableVars, requests, featIn,
                   featOut>>

NextRule ==
    \/ TablesHold
    \/ FirewallEngineInit
    \/ DecideStructural

SpecRule == Init /\ [][NextRule]_vars

\* FirewallEngine.__init__ (lines 120-126) when a read of _load_lists fails at
\* start-up: the except clause logs, the constructor goes on, and the rule
\* engine keeps the sets RuleEngine() made
FirewallEngineInitLoadFails ==
    /\ ~engineReady
    /\ \E file_ok \in BOOLEAN :
         /\ is_loaded' = IF is_loaded THEN is_loaded ELSE load_model(file_ok).is_loaded
         /\ model' = IF is_loaded THEN model ELSE load_model(file_ok).model
    /\ \E read \in {{}, wlTable} :
         LET e == _load_lists_installs("except", CurrentLists, read, {})
         IN  /\ whitelist' = e.whitelist
             /\ blacklist' = e.blacklist
    /\ LoadListsFails
    /\ engineReady' = TRUE
    /\ UNCHANGED <<storeVars, now, threadVars, tampered, predVars, response,
                   serverVars, verifyOut, wlTable, blTable, listEdits, callVars>>

\* the engine constructed with the tables readable or not, then table edits,
\* reloads and decisions
NextLoadFails ==
    \/ FirewallEngineInit
    \/ FirewallEngineInitLoadFails
    \/ ListEdit
    \/ ReloadReadWhitelist
    \/ ReloadReadBlacklist
    \/ ReloadLoadLists
    \/ Decide

SpecLoadFails == Init /\ [][NextLoadFails]_vars

NextLists ==
    \/ FirewallEngineInit
    \/ ListEdit
    \/ ReloadReadWhitelist
    \/ ReloadReadBlacklist
    \/ ReloadLoadLists
    \/ Decide

SpecLists == Init /\ [][NextLists]_vars

(***************************************************************************)
(* Feature extractor (app/ml/feature_extractor.py)                         *)
(***************************************************************************)
\* the dict SUSPICIOUS_TLDS as its items() in insertion order
SUSPICIOUS_TLDS ==
    << <<".tk", 5>>, <<".ml", 5>>, <<".ga", 5>>, <<".cf", 5>>, <<".gq", 5>>,
       <<".xyz", 3>>, <<".top", 3>>, <<".win", 3>>, <<".bid", 3>>,
       <<".com", 1>>, <<".net", 1>>, <<".org", 1>>, <<".edu", 0>>, <<".gov", 0>> >>

\* the loop of get_tld_risk_score with "return 0" after it
RECURSIVE tld_scan_default_min(_, _)
tld_scan_default_min(items, domain) ==
    IF items = <<>> THEN 0
    ELSE IF endswith(domain, Head(items)[1]) THEN Head(items)[2]
    ELSE tld_scan_default_min(Tail(items), domain)

\* lines 43-46: the loop over items, returning at the first tld the domain
\* ends with, and "return 2" after the loop
RECURSIVE tld_scan(_, _)
tld_scan(items, domain) ==
    IF items = <<>> THEN 2
    ELSE IF endswith(domain, Head(items)[1]) THEN Head(items)[2]
    ELSE tld_scan(Tail(items), domain)

get_tld_risk_score(domain) == tld_scan(SUSPICIOUS_TLDS, domain)

\* character i of text ('' outside it)
char_at(text, i) == IF i \in 1..Len(text) THEN SubSeq(text, i, i) ELSE ""

\* c in chars, for one character c
in_chars(c, chars) == \E i \in 1..Len(chars) : SubSeq(chars, i, i) = c

\* str.isdigit, str.isalpha, str.isalnum of one (ASCII) character
isdigit(c) == in_chars(c, "0123456789")
isalpha(c) == in_chars(c, LowerCase \o UpperCase)
isalnum(c) == isdigit(c) \/ isalpha(c)

\* sub in text
contains(text, sub) ==
    \E i \in 1..(Len(text) + 1) :
        /\ i + Len(sub) - 1 <= Len(text)
        /\ SubSeq(text, i, i + Len(sub) - 1) = sub

\* text.replace(old, '')
RECURSIVE remove_all(_, _)
remove_all(text, old) ==
    IF Len(text) < Len(old) THEN text
    ELSE IF SubSeq(text, 1, Len(old)) = old
    THEN remove_all(SubSeq(text, Len(old) + 1, Len(text)), old)
    ELSE SubSeq(text, 1, 1) \o remove_all(SubSeq(text, 2, Len(text)), old)

\* text.count(c), for one character c
count_char(text, c) == Cardinality({i \in 1..Len(text) : SubSeq(text, i, i) = c})

RECURSIVE gcd(_, _)
gcd(a, b) == IF b = 0 THEN a ELSE gcd(b, a % b)

\* "n / d if d > 0 else 0": the quotient as a fraction in lowest terms
ratio(n, d) ==
    IF d > 0 THEN [num |-> n \div gcd(n, d), den |-> d \div gcd(n, d)]
    ELSE [num |-> 0, den |-> 1]

\* int(bool)
int(b) == IF b THEN 1 ELSE 0

SUSPICIOUS_KEYWORDS ==
    <<"login", "secure", "account", "verify", "update", "confirm",
      "bank", "paypal", "ebay", "amazon", "apple", "microsoft",
      "free", "winner", "prize", "click", "download">>

\* lines 22-38.  The sum -p*log2(p) over the counter's values is a function of
\* the length and of how many characters occur how often; the entropy is kept
\* as that pair.
calculate_entropy(text) ==
    IF text = "" THEN [length |-> 0, counts |-> <<>>]
    ELSE LET chars == {SubSeq(text, i, i) : i \in 1..Len(text)}
             values == {count_char(text, c) : c \in chars}
         IN  [length |-> Len(text),
              counts |-> [v \in values |->
                            Cardinality({c \in chars : count_char(text, c) = v})]]

\* lines 49-52
contains_suspicious_keywords(domain) ==
    LET domain_lower == lower(domain) IN
    \E k \in 1..Len(SUSPICIOUS_KEYWORDS) :
        contains(domain_lower, SUSPICIOUS_KEYWORDS[k])

\* the loop of lines 61-66
RECURSIVE max_consonant_loop(_, _, _)
max_consonant_loop(text, current_len, max_len) ==
    IF text = "" THEN max_len
    ELSE LET c == SubSeq(text, 1, 1)
             rest == SubSeq(text, 2, Len(text))
         IN  IF isalpha(c) /\ ~in_chars(c, "aeiouAEIOU")
             THEN max_consonant_loop(rest, current_len + 1,
                                     Max(max_len, current_len + 1))
             ELSE max_consonant_loop(rest, 0, max_len)

\* lines 55-68
max_consonant_sequence(text) == max_consonant_loop(text, 0, 0)

\* n characters of text from place i on are all digits
digits_at(text, i, n) == \A j \in i..(i + n - 1) : isdigit(char_at(text, j))

\* re.search(r'\d{1,3}\.\d{1,3}\.\d{1,3}\.\d{1,3}', text)
search_ip_pattern(text) ==
    \E i \in 1..Len(text), a \in 1..3, b \in 1..3, c \in 1..3, d \in 1..3 :
        /\ digits_at(text, i, a)
        /\ char_at(text, i + a) = "."
        /\ digits_at(text, i + a + 1, b)
        /\ char_at(text, i + a + b + 1) = "."
        /\ digits_at(text, i + a + b + 2, c)
        /\ char_at(text, i + a + b + c + 2) = "."
        /\ digits_at(text, i + a + b + c + 3, d)

\* re.search(r'[0-9a-f]{8,}', text)
search_hex_pattern(text) ==
    \E i \in 1..Len(text) :
        \A j \in i..(i + 7) : in_chars(char_at(text, j), "0123456789abcdef")

\* lines 82-139: the dict as its items in insertion order
extract_features(domain_arg) ==
    LET domain == remove_all(remove_all(domain_arg, "http://"), "https://")
        domain_name == first_label(domain)
        idx == 1..Len(domain)
        length == Len(domain)
        digit_count == Cardinality({i \in idx : isdigit(char_at(domain, i))})
        alpha_count == Cardinality({i \in idx : isalpha(char_at(domain, i))})
        special_count ==
            Cardinality({i \in idx : /\ ~isalnum(char_at(domain, i))
                                     /\ char_at(domain, i) # "."})
        vowel_count ==
            Cardinality({i \in idx : in_chars(lower_char(char_at(domain, i)),
                                              "aeiou")})
        consonant_count ==
            Cardinality({i \in idx :
                           /\ isalpha(char_at(domain, i))
                           /\ ~in_chars(lower_char(char_at(domain, i)), "aeiou")})
    IN  << <<"length", length>>,
           <<"domain_name_length", Len(domain_name)>>,
           <<"subdomain_count", count_char(domain, ".")>>,
           <<"digit_ratio", ratio(digit_count, length)>>,
           <<"special_char_ratio", ratio(special_count, length)>>,
           <<"vowel_ratio", ratio(vowel_count, length)>>,
           <<"consonant_ratio", ratio(consonant_count, length)>>,
           <<"alpha_ratio", ratio(alpha_count, length)>>,
           <<"entropy", calculate_entropy(domain_name)>>,
           <<"full_entropy", calculate_entropy(domain)>>,
           <<"hyphen_count", count_char(domain, "-")>>,
           <<"underscore_count", count_char(domain, "_")>>,
           <<"dot_count", count_char(domain, ".")>>,
           <<"max_consonant_sequence", max_consonant_sequence(domain_name)>>,
           <<"tld_risk_score", get_tld_risk_score(domain)>>,
           <<"has_suspicious_keyword", int(contains_suspicious_keywords(domain))>>,
           <<"has_ip_pattern", int(search_ip_pattern(domain))>>,
           <<"has_hex_pattern", int(search_hex_pattern(lower(domain)))>>,
           <<"digit_alpha_ratio", ratio(digit_count, alpha_count)>>,
           <<"vowel_consonant_ratio", ratio(vowel_count, consonant_count)>> >>

\* list(d.keys()) and d[key] of a dict given as its items
dict_keys(items) == [i \in 1..Len(items) |-> items[i][1]]
dict_get(items, key) ==
    items[CHOOSE i \in 1..Len(items) : items[i][1] = key][2]

\* feature_order with 'length' and 'domain_name_length' exchanged
feature_order_swapped ==
    <<"domain_name_length", "length", "subdomain_count",
      "digit_ratio", "special_char_ratio", "vowel_ratio", "consonant_ratio",
      "alpha_ratio",
      "entropy", "full_entropy",
      "hyphen_count", "underscore_count", "dot_count", "max_consonant_sequence",
      "tld_risk_score",
      "has_suspicious_keyword", "has_ip_pattern", "has_hex_pattern",
      "digit_alpha_ratio", "vowel_consonant_ratio">>

\* lines 155-163
feature_order ==
    <<"length", "domain_name_length", "subdomain_count",
      "digit_ratio", "special_char_ratio", "vowel_ratio", "consonant_ratio",
      "alpha_ratio",
      "entropy", "full_entropy",
      "hyphen_count", "underscore_count", "dot_count", "max_consonant_sequence",
      "tld_risk_score",
      "has_suspicious_keyword", "has_ip_pattern", "has_hex_pattern",
      "digit_alpha_ratio", "vowel_consonant_ratio">>

\* lines 152-165
get_feature_vector(domain) ==
    LET features == extract_features(domain) IN
    [k \in 1..Len(feature_order) |-> dict_get(features, feature_order[k])]

\* feature_names of MLModel.get_feature_importance (app/core/ml_model.py)
MLModel_feature_names ==
    <<"length", "domain_name_length", "subdomain_count",
      "digit_ratio", "special_char_ratio", "vowel_ratio", "consonant_ratio",
      "alpha_ratio",
      "entropy", "full_entropy",
      "hyphen_count", "underscore_count", "dot_count", "max_consonant_sequence",
      "tld_risk_score",
      "has_suspicious_keyword", "has_ip_pattern", "has_hex_pattern",
      "digit_alpha_ratio", "vowel_consonant_ratio">>

\* feature_names of DomainClassifierTrainer.get_feature_importance
\* (app/ml/train.py)
DomainClassifierTrainer_feature_names ==
    <<"length", "domain_name_length", "subdomain_count",
      "digit_ratio", "special_char_ratio", "vowel_ratio", "consonant_ratio",
      "alpha_ratio",
      "entropy", "full_entropy",
      "hyphen_count", "underscore_count", "dot_count", "max_consonant_sequence",
      "tld_risk_score",
      "has_suspicious_keyword", "has_ip_pattern", "has_hex_pattern",
      "digit_alpha_ratio", "vowel_consonant_ratio">>

\* the columns of the frame the model is fitted on: pd.DataFrame(features_list)
\* takes them from the dicts' keys in their order (train.py lines 89-95)
extract_features_bulk_columns(domain) == dict_keys(extract_features(domain))

\* domain strings: a left part followed by an ending
DomainStems ==
    {"", "evil", "example", "a", "tk", "x.tk", "my.gov", "login-1",
     "http://Secure_Bank", "https://10.0.0.1", "deadBEEF01"}
DomainEndings ==
    {"", ".", ".ar", ".tk.ar", ".com.tk", ".gov.uk", ".TK", "tk", ".xyzz"}
        \cup {SUSPICIOUS_TLDS[i][1] : i \in 1..Len(SUSPICIOUS_TLDS)}
FeatureDomains == {stem \o ending : stem \in DomainStems, ending \in DomainEndings}

\* a caller about to call one of the two functions with a domain string
InitFeatures ==
    /\ InitSystem
    /\ featIn \in {<<[call |-> c, domain |-> d]>> :
                      c \in {"get_tld_risk_score", "get_feature_vector"},
                      d \in FeatureDomains}
    /\ featOut = <<>>

\* the call of FeatureExtractor.get_tld_risk_score returns
get_tld_risk_score_call ==
    /\ featOut = <<>>
    /\ featIn[1].call = "get_tld_risk_score"
    /\ featOut' = <<get_tld_risk_score(featIn[1].domain)>>
    /\ UNCHANGED <<engineVars, storeVars, now, threadVars, tampered, predVars,
                   response, serverVars, verifyOut, tableVars, requests, decided,
                   featIn>>

\* the call of FeatureExtractor.get_feature_vector returns
get_feature_vector_call ==
    /\ featOut = <<>>
    /\ featIn[1].call = "get_feature_vector"
    /\ featOut' = <<get_feature_vector(featIn[1].domain)>>
    /\ UNCHANGED <<engineVars, storeVars, now, threadVars, tampered, predVars,
                   response, serverVars, verifyOut, tableVars, requests, decided,
                   featIn>>

NextFeatures ==
    \/ get_tld_risk_score_call
    \/ get_feature_vector_call

SpecFeatures == InitFeatures /\ [][NextFeatures]_vars

(***************************************************************************)
(* Direct calls of MLModel.predict on the global classifier                *)
(***************************************************************************)
PredictCall ==
    /\ \E fault \in Faults, p_mal \in Probs, p_safe \in Probs :
         LET r == predict(is_loaded, model, fault, p_mal, p_safe) IN
         /\ predIn' = <<[is_loaded |-> is_loaded, model |-> model, fault |-> fault,
                         p_mal |-> p_mal, p_safe |-> p_safe]>>
         /\ predOut' = <<r>>
         /\ is_loaded' = r.is_loaded
         /\ model' = r.model
    /\ UNCHANGED <<engineReady, whitelist, blacklist, storeVars, now, threadVars,
                   tampered, response, serverVars, verifyOut,
                   tableVars, callVars>>

\* values of the setting ML_CONFIDENCE_THRESHOLD and of the malicious
\* probability, in percent
ThresholdSettings == {0, 10, 20, 30, 40, 45, 50, 51, 55, 60, 70, 80, 90, 100}
FineProbs == {5 * k : k \in 0..20} \cup {49, 51}

\* a predict call, on a loaded classifier, that has got probabilities with
\* p_safe = 1 - p_mal from predict_proba, under some value of the setting
InitThreshold ==
    /\ InitCore
    /\ predIn \in {<<[threshold |-> th, p_mal |-> p, p_safe |-> 100 - p]>> :
                      th \in ThresholdSettings, p \in FineProbs}
    /\ predOut = <<>>
    /\ featIn = <<>>
    /\ featOut = <<>>

\* lines 60-75: the decision, confidence and reason of that call
ThresholdCall ==
    /\ predOut = <<>>
    /\ predOut' = <<ThresholdAt(predIn[1].threshold, predIn[1].p_mal,
                                predIn[1].p_safe)>>
    /\ UNCHANGED <<engineVars, storeVars, now, threadVars, tampered, predIn,
                   response, serverVars, verifyOut, tableVars, callVars>>

NextThreshold ==
    \/ ThresholdCall

SpecThreshold == InitThreshold /\ [][NextThreshold]_vars

NextPredict ==
    \/ FirewallEngineInit
    \/ PredictCall

SpecPredict == Init /\ [][NextPredict]_vars

(***************************************************************************)
(* An edit of one stored field of a non-genesis block, made behind the     *)
(* chain's back, with no hash recomputed                                   *)
(***************************************************************************)
BlockFields == {"block_index", "timestamp", "domain", "decision", "confidence",
                "previous_hash", "current_hash", "data"}

\* the values an edit may put into field f of block b
TamperValues(b, f) ==
    CASE f = "block_index" ->
           (1..(MaxQueries + 2)) \ {c.block_index : c \in blocks}
      [] f = "timestamp" -> (0..(MaxTime + 1)) \ {b.timestamp}
      [] f = "domain" -> Domains \ {b.domain}
      [] f = "decision" -> {"ALLOW", "BLOCK", "REVIEW"} \ {b.decision}
      [] f = "confidence" -> {0, 100} \ {b.confidence}
      [] f = "previous_hash" ->
           ({ZeroHash} \cup {c.current_hash : c \in blocks}) \ {b.previous_hash}
      [] f = "current_hash" -> {ZeroHash, <<"sha256", "forged">>}
      [] f = "data" ->
           {json_dumps([json_loads(b.data) EXCEPT !.decision = d]) :
                d \in {"ALLOW", "BLOCK", "REVIEW"} \ {json_loads(b.data).decision}}
           \cup {[valid_json |-> FALSE, text |-> b.data.text]}

Tamper ==
    /\ tampered = <<>>
    /\ \E b \in blocks, f \in BlockFields :
         /\ b.block_index >= 1
         /\ \E v \in TamperValues(b, f) :
              LET edited == [b EXCEPT ![f] = v] IN
              /\ blocks' = (blocks \ {b}) \cup {edited}
              /\ tampered' = <<[block_index |-> b.block_index,
                                index_after |-> edited.block_index,
                                field |-> f]>>
    /\ UNCHANGED <<engineVars, dnsLogs, now, threadVars, predVars, response,
                   serverVars, verifyOut,
                   tableVars, callVars>>

\* one worker appending, and the edit
NextTamper ==
    \/ FirewallEngineInit
    \/ Worker("w1")
    \/ Tamper

SpecTamper == Init /\ [][NextTamper]_vars

(***************************************************************************)
(* One stored field of the genesis block edited behind the chain's back,   *)
(* with no hash recomputed                                                 *)
(***************************************************************************)
GenesisFields == {"data", "timestamp", "current_hash"}

TamperGenesis ==
    /\ tampered = <<>>
    /\ \E b \in blocks, f \in GenesisFields :
         /\ b.block_index = 0
         /\ \E v \in TamperValues(b, f) :
              LET edited == [b EXCEPT ![f] = v] IN
              /\ blocks' = (blocks \ {b}) \cup {edited}
              /\ tampered' = <<[block_index |-> 0,
                                index_after |-> 0,
                                field |-> f,
                                alone |-> (blocks = {b})]>>
    /\ UNCHANGED <<engineVars, dnsLogs, now, threadVars, predVars, response,
                   serverVars, verifyOut,
                   tableVars, callVars>>

\* one worker appending, and the edit of block 0
NextTamperGenesis ==
    \/ FirewallEngineInit
    \/ Worker("w1")
    \/ TamperGenesis

SpecTamperGenesis == Init /\ [][NextTamperGenesis]_vars

(***************************************************************************)
(* A stored non-genesis block deleted behind the chain's back              *)
(***************************************************************************)
\* DELETE FROM blockchain_logs WHERE block_index = b.block_index, on a chain
\* that verify_chain (lines 164-199) reports as valid or not (valid_before)
Delete ==
    /\ tampered = <<>>
    /\ \E b \in blocks :
         /\ b.block_index >= 1
         /\ blocks' = blocks \ {b}
         /\ tampered' = <<[block_index |-> b.block_index,
                           index_after |-> b.block_index,
                           field |-> "deleted",
                           valid_before |-> verify_chain(blocks).valid,
                           was_last |-> (LastBlock(blocks) = <<b>>)]>>
    /\ UNCHANGED <<engineVars, dnsLogs, now, threadVars, predVars, response,
                   serverVars, verifyOut,
                   tableVars, callVars>>

\* one worker appending, and the deletion
NextDelete ==
    \/ FirewallEngineInit
    \/ Worker("w1")
    \/ Delete

SpecDelete == Init /\ [][NextDelete]_vars

(***************************************************************************)
(* Claims                                                                  *)
(***************************************************************************)
Verdicts == {"ALLOW", "BLOCK", "REVIEW"}

\* C1: once a single stored field of a non-genesis block has been edited
\* without recomputing its hash, verify_chain returns valid = false with a
\* message that names that block's index (the index it had, or the one the edit
\* gave it).
C1_TamperDetected ==
    tampered # <<>> =>
        LET v == verify_chain(blocks) IN
        /\ ~v.valid
        /\ Len(v.message) = 2
        /\ v.message[2] \in {tampered[1].block_index, tampered[1].index_after}

\* C2: no two add_log calls are between their read of the last block and their
\* write with the same last block read (so with the same block_index and the
\* same previous_hash to write).
C2_AppendsSerialized ==
    \A t1, t2 \in Threads :
        (t1 # t2 /\ pc[t1] = "add_log_write" /\ pc[t2] = "add_log_write")
            => local[t1].last_block # local[t2].last_block

\* C3: every stored block with index i >= 1 has previous_hash equal to the
\* current_hash of the stored block with index i - 1.
C3_ChainLinkage ==
    \A b \in blocks :
        b.block_index >= 1 =>
            \E p \in blocks : /\ p.block_index = b.block_index - 1
                              /\ b.previous_hash = p.current_hash

C3_Witness ==
    \E b \in blocks : b.block_index = 2

\* C4: every block written by the chain (genesis included) has a stored
\* current_hash equal to the hash recomputed from its stored block_index,
\* timestamp, payload and previous_hash.
C4_StoredHashRecomputes ==
    \A b \in blocks : b.current_hash = RecalculatedHash(b)

\* C5: at most one block with block_index 0 is stored, its previous_hash is the
\* 64-zero sentinel, and it is stored whenever a block with index >= 1 is.
C5_SingleGenesis ==
    /\ Cardinality({b \in blocks : b.block_index = 0}) <= 1
    /\ \A b \in blocks : b.block_index = 0 => b.previous_hash = ZeroHash
    /\ (\E b \in blocks : b.block_index >= 1) => (\E b \in blocks : b.block_index = 0)

\* two first appends met on the empty store: one has committed block 0, the
\* other found none and is about to commit its own
C5_Witness ==
    /\ \E b \in blocks : b.block_index = 0
    /\ \E t \in Threads : pc[t] = "genesis_commit"

\* C6: check_domain returns a decision in {ALLOW, BLOCK, REVIEW}, and no other
\* decision is written to the decision log or to an appended audit block.
C6_NoUncertainEscapes ==
    /\ \A t \in Threads :
         (result[t] # <<>> /\ ~result[t][1].raised) => result[t][1].decision \in Verdicts
    /\ \A i \in 1..Len(dnsLogs) : dnsLogs[i].decision \in Verdicts
    /\ \A b \in blocks : b.block_index >= 1 => b.decision \in Verdicts

\* C7: every check_domain call has consulted the rule engine; a rule verdict of
\* ALLOW or BLOCK is adopted with its confidence and method "rule_engine"
\* without any predict call; predict is called, once, and its result adopted
\* with method "ml_model", exactly when the rule verdict is UNCERTAIN.
C7_RuleEngineFirst ==
    \A t \in Threads :
        query[t] # <<>> =>
            LET q == query[t][1]
                rule == RuleEngine_check_domain(q.domain, whitelist, blacklist)
            IN  /\ q.rule_decision = rule.decision
                /\ rule.decision \in {"ALLOW", "BLOCK"} =>
                       /\ q.decision = rule.decision
                       /\ q.confidence = rule.confidence
                       /\ q.method = "rule_engine"
                       /\ q.predict_calls = 0
                /\ q.predict_calls > 0 => rule.decision = "UNCERTAIN"
                /\ rule.decision = "UNCERTAIN" =>
                       /\ q.predict_calls = 1
                       /\ q.method = "ml_model"
                       /\ q.decision \in {"ALLOW", "BLOCK", "REVIEW", "UNCERTAIN"}

\* a whitelisted domain decided by the rule engine and, in flight at the same
\* time, an unlisted domain decided by the classifier
C7_Witness ==
    \E t1, t2 \in Threads :
        /\ query[t1] # <<>> /\ query[t2] # <<>>
        /\ query[t1][1].method = "rule_engine" /\ query[t1][1].decision = "ALLOW"
        /\ query[t2][1].method = "ml_model" /\ query[t2][1].decision = "BLOCK"

\* C8: with a loaded model and no failure, predict returns BLOCK with confidence
\* p_mal when p_mal >= threshold, otherwise ALLOW with confidence p_safe when
\* p_safe >= threshold, otherwise REVIEW with confidence max(p_mal, p_safe);
\* p_mal = 0.9 gives BLOCK 0.9 and p_mal = p_safe = 0.5 gives REVIEW 0.5.
C8_ThresholdLaw ==
    (predOut # <<>> /\ predIn[1].is_loaded /\ predIn[1].fault = "none") =>
        LET i == predIn[1]
            o == predOut[1]
        IN  /\ i.p_mal >= ML_CONFIDENCE_THRESHOLD =>
                   o.decision = "BLOCK" /\ o.confidence = i.p_mal
            /\ (i.p_mal < ML_CONFIDENCE_THRESHOLD /\ i.p_safe >= ML_CONFIDENCE_THRESHOLD) =>
                   o.decision = "ALLOW" /\ o.confidence = i.p_safe
            /\ (i.p_mal < ML_CONFIDENCE_THRESHOLD /\ i.p_safe < ML_CONFIDENCE_THRESHOLD) =>
                   /\ o.decision = "REVIEW"
                   /\ o.confidence >= i.p_mal /\ o.confidence >= i.p_safe
                   /\ o.confidence \in {i.p_mal, i.p_safe}
            /\ i.p_mal = 90 => o.decision = "BLOCK" /\ o.confidence = 90
            /\ (i.p_mal = 50 /\ i.p_safe = 50) =>
                   o.decision = "REVIEW" /\ o.confidence = 50

C8_Witness ==
    /\ predOut # <<>>
    /\ predIn[1].is_loaded /\ predIn[1].fault = "none"
    /\ predIn[1].p_mal = 50 /\ predIn[1].p_safe = 50
    /\ predOut[1].decision = "REVIEW"

\* C9: predict never raises; with no model loaded, or when feature extraction
\* or the model invocation fails, it returns (UNCERTAIN, 0.5, reason); and it
\* leaves is_loaded and model as they were.
C9_PredictNeverRaises ==
    predOut # <<>> =>
        LET i == predIn[1]
            o == predOut[1]
        IN  /\ ~o.raised
            /\ (~i.is_loaded \/ i.model = <<>> \/ i.fault # "none") =>
                   /\ o.decision = "UNCERTAIN"
                   /\ o.confidence = 50
                   /\ o.reason \in {"ML model not available", "Prediction error"}
            /\ o.is_loaded = i.is_loaded
            /\ o.model = i.model

C9_Witness ==
    /\ predOut # <<>>
    /\ predIn[1].is_loaded /\ predIn[1].fault = "predict_proba"
    /\ predOut[1].decision = "UNCERTAIN"
    /\ is_loaded

\* C11: with the audit chain enabled and block 0 found by the call, a
\* check_domain call that returns has added exactly one block, which carries
\* the domain, decision, confidence and reason it returns; a call that added
\* none has met a database failure (its block was not a duplicate).
C11_OneBlockPerCall ==
    [][\A t \in Threads :
         (pc[t] = "add_log_write" /\ pc'[t] = "returned" /\ local[t].genesis) =>
             LET q == query[t][1]
                 b == add_log_block(local[t].last_block[1], local[t].timestamp[1],
                                    q.domain, q.decision, q.confidence, q.reason)
                 r == result'[t][1]
             IN  IF blocks' = blocks
                 THEN UniqueOk(blocks, b)
                 ELSE /\ Cardinality(blocks') = Cardinality(blocks) + 1
                      /\ \A n \in blocks' \ blocks :
                            /\ n.domain = q.domain
                            /\ n.decision = r.decision
                            /\ n.confidence = r.confidence
                            /\ json_loads(n.data).reason = r.reason
                            /\ json_loads(n.data).decision = r.decision]_vars

\* C10: a failure of the decision-record write or of the audit append is not
\* raised out of check_domain, which returns the decision, confidence and
\* reason it decided; every way out of _log_decision whose last step wrote
\* nothing (each is a failure) puts "Error logging decision" on the error log.
InLogDecision ==
    {"log_decision", "genesis_commit", "add_log", "add_log_requery",
     "add_log_genesis_commit", "add_log_write"}

C10_LoggingBestEffort ==
    /\ [](\A t \in Threads :
            /\ pc[t] # "raise"
            /\ pc[t] = "returned" =>
                   /\ result[t] # <<>>
                   /\ ~result[t][1].raised
                   /\ result[t][1].decision = query[t][1].decision
                   /\ result[t][1].confidence = query[t][1].confidence
                   /\ result[t][1].reason = query[t][1].reason)
    /\ [][\A t \in Threads :
            (pc[t] \in InLogDecision /\ pc'[t] \notin InLogDecision)
                => /\ pc'[t] = "returned"
                   /\ (blocks' = blocks /\ dnsLogs' = dnsLogs)
                        => "Error logging decision" \in errorLog'[t]]_vars

\* a query whose audit append failed has returned its decision
C10_Witness ==
    \E t \in Threads :
        /\ result[t] # <<>>
        /\ "Error adding blockchain log" \in errorLog[t]
        /\ result[t][1].decision = query[t][1].decision

\* a query that resolve has answered with decision d
Responded(t, d) ==
    /\ pc[t] = "responded"
    /\ result[t] # <<>>
    /\ result[t][1].decision = d

\* C12: a query decided BLOCK is answered with the client's reply carrying one
\* answer, an A record for the queried name with address 0.0.0.0 and TTL 60,
\* and no exchange with the upstream resolver has taken place for it.
C12_BlockSinkholed ==
    \A t \in Threads :
        Responded(t, "BLOCK") =>
            LET r == response[t][1] IN
            /\ r.upstream = <<>>
            /\ r.reply = <<[id |-> "request", qname |-> query[t][1].domain,
                            answers |-> <<[rname |-> query[t][1].domain,
                                           rtype |-> "A", rdata |-> "0.0.0.0",
                                           ttl |-> 60]>>]>>

\* a query blocked by the classifier has been answered
C12_Witness ==
    \E t \in Threads :
        /\ Responded(t, "BLOCK")
        /\ query[t][1].method = "ml_model"
        /\ response[t][1].reply[1].answers # <<>>

\* what a forwarded query is answered with: the upstream resolver's response as
\* it is, or the empty local reply when the exchange failed
ForwardedReply(t) ==
    LET r == response[t][1]
        qname == query[t][1].domain
    IN  /\ r.upstream # <<>>
        /\ r.reply # <<>>
        /\ r.upstream[1] \in {"answer", "empty_answer"} =>
               r.reply[1] = UpstreamRecord(qname, r.upstream[1])
        /\ r.upstream[1] \in {"timeout", "send_error", "unparseable"} =>
               r.reply[1] = [id |-> "request", qname |-> qname, answers |-> <<>>]

\* C13: a query decided ALLOW is sent to the upstream resolver; its response,
\* when there is one, is the reply, unchanged; when the exchange times out or
\* fails the reply is the empty local one; resolve is not left by an exception.
C13_AllowForwarded ==
    \A t \in Threads :
        /\ pc[t] # "escaped"
        /\ Responded(t, "ALLOW") => ForwardedReply(t)

\* an allowed query whose upstream exchange timed out has been answered
C13_Witness ==
    \E t \in Threads :
        /\ Responded(t, "ALLOW")
        /\ response[t][1].upstream = <<"timeout">>
        /\ response[t][1].reply[1].answers = <<>>

\* the rows that a step adds to dns_logs
NewDnsLogs == {dnsLogs'[i] : i \in (Len(dnsLogs) + 1)..Len(dnsLogs')}

\* C14: a query decided REVIEW is forwarded exactly as an ALLOW query is, and
\* every row written for it, to dns_logs and to the audit chain, has decision
\* REVIEW.
C14_ReviewLoggedAsReview ==
    /\ [](\A t \in Threads : Responded(t, "REVIEW") => ForwardedReply(t))
    /\ [][\A t \in Threads :
            (query[t] # <<>> /\ query[t][1].decision = "REVIEW" /\ pc[t] \in InLogDecision)
                => /\ \A row \in NewDnsLogs : row.decision = "REVIEW"
                   /\ \A b \in blocks' \ blocks :
                        b.block_index >= 1 =>
                            /\ b.decision = "REVIEW"
                            /\ json_loads(b.data).decision = "REVIEW"]_vars

\* a REVIEW query is in dns_logs and in the chain, and was answered by the
\* upstream resolver
C14_Witness ==
    \E t \in Threads :
        /\ Responded(t, "REVIEW")
        /\ response[t][1].upstream = <<"answer">>
        /\ \E i \in 1..Len(dnsLogs) : dnsLogs[i].decision = "REVIEW"
        /\ \E b \in blocks : b.decision = "REVIEW"

\* C15: a query goes from received (check_domain running) to decided
\* (check_domain has returned) to responded and back to idle, in that order;
\* an upstream exchange or a reply exists only once check_domain has returned
\* its decision; the decision of a query, once returned, is not replaced.
C15_ReceivedDecidedResponded ==
    /\ [](\A t \in Threads :
            response[t] # <<>> => (pc[t] = "responded" /\ result[t] # <<>>))
    /\ [][\A t \in Threads :
            /\ pc[t] = "idle" => pc'[t] \in {"idle", "log_decision"}
            /\ pc[t] \in InLogDecision => pc'[t] \in InLogDecision \cup {"returned"}
            /\ pc[t] = "returned" => pc'[t] \in {"returned", "responded"}
            /\ pc[t] = "responded" => pc'[t] \in {"responded", "idle"}
            /\ result[t] # <<>> => result'[t] \in {result[t], <<>>}
            /\ (result[t] = <<>> /\ result'[t] # <<>>) =>
                   (pc[t] \in InLogDecision /\ pc'[t] = "returned")]_vars

\* a forwarded query has been answered
C15_Witness ==
    \E t \in Threads :
        /\ pc[t] = "responded"
        /\ result[t] # <<>>
        /\ response[t][1].upstream = <<"answer">>

Running == server # <<>> /\ servers[server[1]].serving

\* C17: start() on a started server creates no second DNSServer and no second
\* thread, keeps the reference to the running server and does not raise; at
\* most one DNSServer is bound and serving, and it is the one referenced.
C17_StartIdempotent ==
    /\ [](/\ Cardinality(Serving) <= 1
          /\ \A i \in Serving : server = <<i>>)
    /\ [][(start /\ Running) =>
             /\ servers' = servers
             /\ server' = server
             /\ thread' = thread
             /\ ~lastCall'[1].raised]_vars

\* C18: stop() on a server that is not running (never started, or already
\* stopped) touches no DNSServer object and changes nothing of the server
\* object; no DNSServer is stopped more than once.
C18_StopNoOpWhenNotRunning ==
    /\ [](\A i \in 1..Len(servers) : servers[i].stops <= 1)
    /\ [][(stop /\ ~Running) =>
             /\ servers' = servers
             /\ server' = server
             /\ thread' = thread]_vars

\* C19: when, in index order, a block i has intact linkage and a hash mismatch
\* and the first broken previous_hash link is at a later block j, verify_chain
\* reports the broken link at block j.
C19_LinksCheckedFirst ==
    LET blks == OrderByIndex(blocks)
        BrokenLink(k) == blks[k].previous_hash # blks[k - 1].current_hash
        HashMismatch(k) == /\ blks[k].data.valid_json
                           /\ RecalculatedHash(blks[k]) # blks[k].current_hash
    IN  \A i, j \in 2..Len(blks) :
            ( /\ blks[1].block_index = 0
              /\ i < j
              /\ HashMismatch(i)
              /\ BrokenLink(j)
              /\ \A k \in 2..(j - 1) : ~BrokenLink(k) /\ blks[k].data.valid_json )
            => verify_chain(blocks) =
                   [valid |-> FALSE,
                    message |-> <<"Chain broken at block", blks[j].block_index>>]

\* C20: a chain holding only the genesis block, and every chain made by genesis
\* creation and appends one after the other with nothing edited, verifies as
\* valid; a verification that reads the table says so, and says the same when
\* repeated on the same chain.
C20_UntouchedChainValid ==
    /\ [](blocks # {} => verify_chain(blocks).valid)
    /\ [](( /\ verifyOut # <<>>
            /\ ~verifyOut[1].raised
            /\ verifyOut[1].message # <<"Verification error">> )
              => /\ verifyOut[1].valid
                 /\ verifyOut[1].message = <<"Blockchain is valid">>)
    /\ [][( /\ verifyOut' # verifyOut
            /\ verifyOut # <<>>
            /\ blocks' = blocks
            /\ ~verifyOut[1].raised /\ ~verifyOut'[1].raised
            /\ verifyOut[1].message # <<"Verification error">>
            /\ verifyOut'[1].message # <<"Verification error">> )
              => FALSE]_vars

\* a chain of genesis and two appended blocks has been verified as valid
C20_Witness ==
    /\ verifyOut # <<>>
    /\ verifyOut[1].valid
    /\ \E b \in blocks : b.block_index = 2

\* the genesis block alone has been verified as valid
C20_WitnessGenesisOnly ==
    /\ verifyOut # <<>>
    /\ verifyOut[1].valid
    /\ Cardinality(blocks) = 1

\* the block that thread t is about to add, built on the block it has read
PendingBlock(t) ==
    add_log_block(local[t].last_block[1], local[t].timestamp[1], query[t][1].domain,
                  query[t][1].decision, query[t][1].confidence, query[t][1].reason)

C22_DeletionDetected ==
    (tampered # <<>> /\ tampered[1].field = "deleted" /\ tampered[1].valid_before)
        => ~verify_chain(blocks).valid

\* the normalized name of a request: trailing dot stripped, lower-cased
Normalized(labels) == lower(rstrip_dot(str_qname(labels)))

\* C23: check_domain is called with (and so decides and logs) the requested
\* name with its trailing dot stripped and lower-cased; two requests whose
\* names are the same but for letter case are decided as the same domain
\* string, with the same decision, and logged under the same domain.
C23_QueryNormalized ==
    decided # <<>> =>
        /\ \A i \in 1..2 : decided[i].domain = Normalized(requests[i])
        /\ Normalized(requests[1]) = Normalized(requests[2]) =>
               /\ decided[1].domain = decided[2].domain
               /\ decided[1].decision = decided[2].decision
               /\ log_entry(decided[1]).domain = log_entry(decided[2]).domain

GapFree(bs) == {b.block_index : b \in bs} = 0..(Cardinality(bs) - 1)

\* thread t leaves _log_decision in this step without having appended: by a
\* failure (logged) or by being abandoned
LeavesWithoutAppend(t) ==
    /\ pc[t] \in InLogDecision
    /\ pc'[t] \notin InLogDecision
    /\ \/ pc'[t] = "idle"
       \/ "Error logging decision" \in errorLog'[t]

\* C25: a step in which an append fails or its query is abandoned leaves the
\* table of blocks exactly as it was; in every state the stored block indexes
\* are gap-free, every appended block is whole (its hash recomputes from its
\* stored fields) and the chain verifies as valid.
C25_FailedAppendLeavesChain ==
    /\ [][\A t \in Threads : LeavesWithoutAppend(t) => blocks' = blocks]_vars
    /\ [](/\ GapFree(blocks)
          /\ \A b \in blocks :
                b.block_index >= 1 => b.current_hash = RecalculatedHash(b)
          /\ blocks # {} => verify_chain(blocks).valid)

\* an append on a chain of two blocks failed at its commit, and the chain is
\* as it was
C25_Witness ==
    \E t \in Threads :
        /\ pc[t] = "returned"
        /\ "Error adding blockchain log" \in errorLog[t]
        /\ Cardinality(blocks) = 2
        /\ GapFree(blocks)
        /\ verify_chain(blocks).valid

\* the pair of sets read by the last _load_lists that got through
LoadedPair == reload.loaded[1]

\* C26: the rule engine's sets change only in the engine's construction and
\* in the load_lists call of a reload; a row added to or deleted from the
\* whitelist or blacklist table changes neither the sets nor any decision;
\* a reload that gets through installs exactly the two sets it read, and every
\* decision made afterwards is the rule verdict under those two sets.
C26_ListsChangeOnlyOnLoad ==
    /\ [][(whitelist' # whitelist \/ blacklist' # blacklist) =>
             \/ ~engineReady
             \/ /\ reload.pc = "load_lists"
                /\ whitelist' = reload.whitelist_domains[1]
                /\ blacklist' = reload.blacklist_domains[1]]_vars
    /\ [][(wlTable' # wlTable \/ blTable' # blTable) =>
             /\ whitelist' = whitelist
             /\ blacklist' = blacklist
             /\ decided' = decided]_vars
    /\ [][decided' # decided =>
             LET d == decided'[1]
                 rule == RuleEngine_check_domain(d.domain, LoadedPair.whitelist,
                                                 LoadedPair.blacklist)
             IN  /\ d.rule_decision = rule.decision
                 /\ rule.decision \in {"ALLOW", "BLOCK"} =>
                        /\ d.decision = rule.decision
                        /\ d.method = "rule_engine"
                 /\ rule.decision = "UNCERTAIN" => d.method = "ml_model"]_vars

\* new.io was put on the blacklist table and, after a reload, is blocked by
\* rule; good.com, taken off the whitelist table, is still on the loaded one
C26_Witness ==
    /\ decided # <<>>
    /\ decided[1].domain = "new.io"
    /\ decided[1].method = "rule_engine"
    /\ decided[1].decision = "BLOCK"
    /\ "good.com" \notin wlTable
    /\ "good.com" \in whitelist

\* C27: at every moment the rule engine holds a pair of sets that one
\* _load_lists read and handed over whole (at construction or in a reload),
\* also while a reload is under way; a step that changes either set puts both
\* sets of the reload in place at once.
C27_ReloadAtomic ==
    /\ [](engineReady =>
            /\ reload.loaded # <<>>
            /\ whitelist = LoadedPair.whitelist
            /\ blacklist = LoadedPair.blacklist)
    /\ [][(engineReady /\ (whitelist' # whitelist \/ blacklist' # blacklist)) =>
             /\ reload.pc = "load_lists"
             /\ reload'.pc = "idle"
             /\ whitelist' = reload.whitelist_domains[1]
             /\ blacklist' = reload.blacklist_domains[1]]_vars

\* a reload has read a whitelist that differs from the one in use and has not
\* yet handed it over, and a query for a domain only on the new whitelist has
\* been decided by the classifier
C27_Witness ==
    /\ reload.pc \in {"read_blacklist", "load_lists"}
    /\ reload.whitelist_domains # <<whitelist>>
    /\ decided # <<>>
    /\ decided[1].domain \in reload.whitelist_domains[1] \ whitelist
    /\ decided[1].method = "ml_model"

\* C29: get_feature_vector returns exactly 20 values in one fixed order; that
\* order is the key order of extract_features (the column order the model is
\* trained on) and the feature-name list of the classifier adapter and of the
\* trainer; position k of the vector holds the feature named at position k of
\* those lists.
C29_FeatureOrder ==
    (featOut # <<>> /\ featIn[1].call = "get_feature_vector") =>
        LET domain == featIn[1].domain
            vector == featOut[1]
            features == extract_features(domain)
        IN  /\ Len(vector) = 20
            /\ Len(features) = 20
            /\ \A i, j \in 1..20 : features[i][1] = features[j][1] => i = j
            /\ feature_order = extract_features_bulk_columns(domain)
            /\ feature_order = MLModel_feature_names
            /\ feature_order = DomainClassifierTrainer_feature_names
            /\ \A k \in 1..20 :
                 /\ features[k][1] = MLModel_feature_names[k]
                 /\ features[k][1] = DomainClassifierTrainer_feature_names[k]
                 /\ vector[k] = features[k][2]

\* the vector of a name whose length, name length, dot count, TLD score and
\* keyword flag all differ from one another's places has been returned
C29_Witness ==
    /\ featOut # <<>>
    /\ featIn[1] = [call |-> "get_feature_vector", domain |-> "login-1.com.tk"]
    /\ featOut[1][1] = 14
    /\ featOut[1][2] = 7
    /\ featOut[1][3] = 2
    /\ featOut[1][11] = 1
    /\ featOut[1][15] = 5
    /\ featOut[1][16] = 1

\* C28: a domain in the blacklist is decided BLOCK with confidence 1.0 by the
\* rule stage whatever its length, entropy or TLD, also when it is in the
\* whitelist too, and check_domain returns that BLOCK with method "rule_engine"
\* without asking the classifier.
C28_BlacklistFirst ==
    (decided # <<>> /\ decided[1].domain \in blacklist) =>
        /\ RuleEngine_check_domain(decided[1].domain, whitelist, blacklist)
              = [decision |-> "BLOCK", confidence |-> 100, reason |-> "blacklist"]
        /\ decided[1].rule_decision = "BLOCK"
        /\ decided[1].decision = "BLOCK"
        /\ decided[1].confidence = 100
        /\ decided[1].method = "rule_engine"
        /\ decided[1].predict_calls = 0
        /\ ~decided[1].raised
        /\ check_domain_return(decided[1]).decision = "BLOCK"

\* a blacklisted name that is over-long, high-entropy and under a suspicious
\* TLD, and is in the whitelist as well, has been decided
C28_Witness ==
    /\ decided # <<>>
    /\ decided[1].domain \in blacklist \cap whitelist
    /\ TooLong(decided[1].domain)
    /\ HighEntropy(decided[1].domain)
    /\ SuspiciousTld(decided[1].domain)
    /\ decided[1].decision = "BLOCK"
\* the table TLDs that are a suffix of the domain, by their place in the table
MatchingTlds(domain) ==
    {i \in 1..Len(SUSPICIOUS_TLDS) :
        \E k \in 0..Len(domain) :
            domain = SubSeq(domain, 1, k) \o SUSPICIOUS_TLDS[i][1]}

\* the items of the table in the opposite order
ReversedTlds ==
    [i \in 1..Len(SUSPICIOUS_TLDS) |->
        SUSPICIOUS_TLDS[Len(SUSPICIOUS_TLDS) + 1 - i]]

\* C30: get_tld_risk_score returns the score of the longest table TLD that is a
\* suffix of the domain and exactly 2 when none is; the result is an integer in
\* 0..5 and is the same in whatever order the table is walked (every matching
\* entry carries the returned score); evil.tk gives 5, example.gov 0,
\* example.ar 2.
C30_TldRiskScore ==
    (featOut # <<>> /\ featIn[1].call = "get_tld_risk_score") =>
        LET domain == featIn[1].domain
            score == featOut[1]
            m == MatchingTlds(domain)
        IN  /\ score \in 0..5
            /\ m = {} => score = 2
            /\ m # {} =>
                 LET longest == CHOOSE i \in m : \A j \in m :
                                   Len(SUSPICIOUS_TLDS[j][1]) <= Len(SUSPICIOUS_TLDS[i][1])
                 IN  score = SUSPICIOUS_TLDS[longest][2]
            /\ \A i \in m : SUSPICIOUS_TLDS[i][2] = score
            /\ tld_scan(ReversedTlds, domain) = score
            /\ domain = "evil.tk" => score = 5
            /\ domain = "example.gov" => score = 0
            /\ domain = "example.ar" => score = 2

\* the score of a name whose last label is in no table entry, while an earlier
\* label is, has been returned
C30_Witness ==
    /\ featOut # <<>>
    /\ featIn[1].call = "get_tld_risk_score"
    /\ featIn[1].domain = "example.tk.ar"
    /\ featOut[1] = 2
\* C31: verify_chain covers the chain from the genesis block on: once the
\* payload, the timestamp or the current_hash of block 0 has been edited without
\* recomputing the hash, verify_chain returns valid = false.
C31_GenesisCovered ==
    (tampered # <<>> /\ tampered[1].block_index = 0
        /\ tampered[1].field \in GenesisFields)
        => ~verify_chain(blocks).valid

\* the part of C31 that the code keeps: an edit of the genesis block's
\* current_hash is reported when a block 1 is stored at the time of the edit
\* (and has not been cut loose by anything else)
C31_GenesisHashWithSuccessor ==
    (tampered # <<>> /\ tampered[1].block_index = 0
        /\ tampered[1].field = "current_hash" /\ ~tampered[1].alone)
        => ~verify_chain(blocks).valid
\* the largest block_index stored
MaxIndex(bs) == CHOOSE i \in {b.block_index : b \in bs} :
                    \A b \in bs : b.block_index <= i

\* C32: with genesis creation and add_log calls one after the other, failed or
\* not, the stored block indexes are exactly 0..n-1, no index is stored twice,
\* and a successful add_log stores and returns a block whose index is one more
\* than the largest index stored before the call.
C32_IndexesGapFree ==
    /\ [](/\ {b.block_index : b \in blocks} = 0..(Cardinality(blocks) - 1)
          /\ \A b, c \in blocks : b.block_index = c.block_index => b = c
          /\ \A t \in Threads :
                pc[t] = "add_log_write" =>
                    /\ blocks # {}
                    /\ local[t].last_block[1].block_index = MaxIndex(blocks))
    /\ [][\A t \in Threads :
            (pc[t] = "add_log_write" /\ pc'[t] = "returned"
                /\ "Error logging decision" \notin errorLog'[t]) =>
                \E n \in blocks' :
                    /\ n \notin blocks
                    /\ blocks' = blocks \cup {n}
                    /\ n.block_index = MaxIndex(blocks) + 1
                    /\ n.block_index = Cardinality(blocks)]_vars

\* a second add_log has returned block 2, on top of blocks 0 and 1
C32_Witness ==
    /\ pc["w1"] = "returned"
    /\ errorLog["w1"] = {}
    /\ {b.block_index : b \in blocks} = {0, 1, 2}
    /\ served = 2
\* the audit blocks of queries: every stored block but the genesis block
QueryBlocks(bs) == {b \in bs : b.block_index >= 1}

\* C33: with audit logging enabled, the decision record and the audit block of
\* a query are persisted together or not at all: whenever no _log_decision call
\* is under way, every stored decision record has its audit block and every
\* audit block its decision record.
C33_RecordAndBlockTogether ==
    (BLOCKCHAIN_ENABLED /\ \A t \in Threads : pc[t] \notin InLogDecision) =>
        /\ Len(dnsLogs) = Cardinality(QueryBlocks(blocks))
        /\ \A i \in 1..Len(dnsLogs) :
              \E b \in QueryBlocks(blocks) :
                  /\ b.domain = dnsLogs[i].domain
                  /\ b.decision = dnsLogs[i].decision
        /\ \A b \in QueryBlocks(blocks) :
              \E i \in 1..Len(dnsLogs) :
                  /\ b.domain = dnsLogs[i].domain
                  /\ b.decision = dnsLogs[i].decision

\* the part of C33 that the code keeps: a step of a _log_decision call whose
\* constructor found the genesis block stored persists a decision record and
\* an audit block together or neither
C33_TogetherWhenGenesisFound ==
    [][\A t \in Threads :
         (pc[t] \in InLogDecision /\ local[t].genesis) =>
             Len(dnsLogs') - Len(dnsLogs)
                 = Cardinality(blocks') - Cardinality(blocks)]_vars
\* C34: serving a recent-blocks, verify or stats request never adds, changes or
\* removes a stored block, whatever the state of the chain, an empty store
\* included: the table after the request is the table before it.
C34_ReadsReadOnly ==
    [][(verifyOut' # verifyOut) => blocks' = blocks]_vars

\* the part of C34 that the code keeps: a request served while block 0 is
\* stored leaves the table as it is
C34_ReadOnlyOnceGenesisStored ==
    [][(verifyOut' # verifyOut /\ GenesisOf(blocks) # <<>>) => blocks' = blocks]_vars
\* the pair of sets of the last _load_lists that got through; the sets of
\* RuleEngine() when none has
LastLoaded ==
    IF reload.loaded = <<>> THEN [whitelist |-> {}, blacklist |-> {}]
    ELSE reload.loaded[1]

\* a step in which a read of _load_lists fails
LoadFailsStep ==
    /\ reload'.errors # {}
    /\ reload' # reload

\* C35: when a read of the whitelist or of the blacklist fails during
\* _load_lists, at start-up or in a reload, both sets of the rule engine stay
\* as they are, "Error loading lists" is logged and nothing is raised (the
\* call is over and the engine is in service), and every later decision is
\* the rule verdict under the sets of the last load that got through.
C35_FailedLoadKeepsLists ==
    /\ [][LoadFailsStep =>
             /\ whitelist' = whitelist
             /\ blacklist' = blacklist
             /\ "Error loading lists" \in reload'.errors
             /\ reload'.pc = "idle"
             /\ reload'.loaded = reload.loaded
             /\ engineReady']_vars
    /\ [](engineReady =>
            /\ whitelist = LastLoaded.whitelist
            /\ blacklist = LastLoaded.blacklist)
    /\ [][decided' # decided =>
             decided'[1].rule_decision =
                 RuleEngine_check_domain(decided'[1].domain, LastLoaded.whitelist,
                                         LastLoaded.blacklist).decision]_vars

\* a reload failed after good.com was taken off the whitelist table and a
\* first reload had got through before; good.com is still allowed by rule
C35_Witness ==
    /\ reload.errors = {"Error loading lists"}
    /\ reload.loaded # <<>>
    /\ reload.pc = "idle"
    /\ "good.com" \in whitelist \ wlTable
    /\ decided # <<>>
    /\ decided[1].domain = "good.com"
    /\ decided[1].decision = "ALLOW"
    /\ decided[1].method = "rule_engine"

\* the engine was constructed while the tables could not be read, and a
\* domain on the blacklist table has been decided by the classifier
C35_WitnessStartup ==
    /\ engineReady
    /\ reload.loaded = <<>>
    /\ reload.errors = {"Error loading lists"}
    /\ decided # <<>>
    /\ decided[1].domain \in blTable
    /\ decided[1].method = "ml_model"
\* C36: with p_safe = 1 - p_mal and a threshold above 0.5 the BLOCK and the
\* ALLOW condition of predict never hold together, a BLOCK or ALLOW carries a
\* confidence of at least the threshold, and a REVIEW a confidence of at least
\* 0.5 and below the threshold; with a threshold of 0.5 or less both conditions
\* hold together for some probability, and the decision is then BLOCK.
C36_ThresholdExclusive ==
    predOut # <<>> =>
        LET i == predIn[1]
            o == predOut[1]
            block_cond == i.p_mal >= i.threshold
            allow_cond == i.p_safe >= i.threshold
        IN  /\ i.p_safe = 100 - i.p_mal
            /\ i.threshold > 50 =>
                 /\ ~(block_cond /\ allow_cond)
                 /\ o.decision \in {"BLOCK", "ALLOW"} => o.confidence >= i.threshold
                 /\ o.decision = "REVIEW" =>
                        /\ o.confidence >= 50
                        /\ o.confidence < i.threshold
            /\ i.threshold <= 50 =>
                 /\ \E p \in FineProbs : p >= i.threshold /\ 100 - p >= i.threshold
                 /\ (block_cond /\ allow_cond) =>
                        /\ o.decision = "BLOCK"
                        /\ o.confidence = i.p_mal

\* under a threshold of 0.45 a safe probability of 0.55 meets the ALLOW
\* condition, the malicious probability of 0.45 the BLOCK condition, and the
\* decision is BLOCK
C36_Witness ==
    /\ predOut # <<>>
    /\ predIn[1] = [threshold |-> 45, p_mal |-> 45, p_safe |-> 55]
    /\ predOut[1].decision = "BLOCK"
    /\ predOut[1].confidence = 45

\* under the threshold of the settings file a probability between has been
\* put to review
C36_WitnessReview ==
    /\ predOut # <<>>
    /\ predIn[1] = [threshold |-> ML_CONFIDENCE_THRESHOLD, p_mal |-> 70, p_safe |-> 30]
    /\ predOut[1].decision = "REVIEW"
    /\ predOut[1].confidence = 70
\* C37: every socket opened by _query_upstream is closed before the call
\* returns, on the success path and on every failure path, so whenever no call
\* is under way no socket opened by the resolver is open.
C37_SocketsClosed ==
    upstreamCall.pc = "idle" =>
        \A i \in 1..Len(upstreamCall.sockets) :
            upstreamCall.sockets[i].state = "closed"

\* the part of C37 that the code keeps: a call that returns after its
\* recvfrom came back (with a response or with an unparseable one) has closed
\* its socket, and a socket once closed stays closed
C37_ClosedAfterReceive ==
    /\ [][(upstreamCall.pc = "parse" /\ upstreamCall'.pc = "idle") =>
             upstreamCall'.sockets[OwnSocket].state = "closed"]_vars
    /\ [][\A i \in 1..Len(upstreamCall.sockets) :
             upstreamCall.sockets[i].state = "closed" =>
                 upstreamCall'.sockets[i].state = "closed"]_vars
====
